---- MODULE Spec2Model ----
(***************************************************************************)
(* Model of the field-to-artwork matching engine of artwork_checker_v2.py: *)
(* TextNormalizer, ZoomTriggerDetector, ArtworkMatcher and the records     *)
(* they exchange.                                                          *)
(*                                                                         *)
(* A text is a sequence of characters.  An ASCII character is the string   *)
(* holding it; a non-ASCII character is the string naming its code point   *)
(* ("U00A0" is the no-break space); "TAB" and "LF" are the control         *)
(* characters.                                                             *)
(***************************************************************************)
EXTENDS Integers, Sequences, FiniteSets, TLC

\* ------------------------------------------------------------------------
\* Bounds of the model
\* ------------------------------------------------------------------------
MaxFields == 2

MaxRuns == 5

\* ------------------------------------------------------------------------
\* Python values that the code passes around
\* ------------------------------------------------------------------------
\* An optional value is None or Some(x).
None == <<>>

Some(x) == <<x>>

NoException == "none"

\* A Python value whose type matters to the code that receives it.
PyBool(b) == [type |-> "bool", val |-> b]

PyList(l) == [type |-> "list", val |-> l]

\* The result of an evaluation: a value, or the exception it raised.
Value(v) == [exc |-> NoException, val |-> v]

Raise(e) == [exc |-> e, val |-> None]

\* ------------------------------------------------------------------------
\* Characters
\* ------------------------------------------------------------------------
\* The whitespace of an ASCII-only pattern.
IsSpace_AsciiOnly(c) == c \in {" ", "TAB", "LF"}

\* The characters a str regular expression's \s matches and str.strip()
\* removes (both follow str.isspace: the no-break spaces are whitespace).
IsSpace(c) == c \in {" ", "TAB", "LF", "U00A0", "U202F"}

IsDigit(c) == c \in {"0", "1", "2", "3", "4", "5", "6", "7", "8", "9"}

UpperLetters == <<"A", "B", "C", "D", "E", "F", "G", "H", "I", "J", "K", "L", "M",
                  "N", "O", "P", "Q", "R", "S", "T", "U", "V", "W", "X", "Y", "Z">>

LowerLetters == <<"a", "b", "c", "d", "e", "f", "g", "h", "i", "j", "k", "l", "m",
                  "n", "o", "p", "q", "r", "s", "t", "u", "v", "w", "x", "y", "z">>

Ligatures == {"UFB00", "UFB01", "UFB02", "UFB03", "UFB04"}

IsUpper(c) == \E i \in 1..26 : UpperLetters[i] = c

IsLower(c) == \E i \in 1..26 : LowerLetters[i] = c

\* \w of a str regular expression: alphanumerics (the ligatures are
\* letters) and the underscore.
IsWord(c) == IsUpper(c) \/ IsLower(c) \/ IsDigit(c) \/ c = "_" \/ c \in Ligatures

\* str.lower() on one character.
LowerChar(c) ==
    IF IsUpper(c) THEN LowerLetters[CHOOSE i \in 1..26 : UpperLetters[i] = c] ELSE c

ToLower(s) == [i \in 1..Len(s) |-> LowerChar(s[i])]

\* ------------------------------------------------------------------------
\* TextNormalizer.normalize
\* ------------------------------------------------------------------------
RECURSIVE DropSpaces(_)
DropSpaces(s) ==
    IF s = <<>> THEN <<>>
    ELSE IF IsSpace(Head(s)) THEN DropSpaces(Tail(s)) ELSE s

\* re.sub(r'\s+', ' ', s): every maximal run of whitespace becomes one space.
RECURSIVE CollapseWhitespace(_)
CollapseWhitespace(s) ==
    IF s = <<>> THEN <<>>
    ELSE IF IsSpace(Head(s))
         THEN <<" ">> \o CollapseWhitespace(DropSpaces(Tail(s)))
         ELSE <<Head(s)>> \o CollapseWhitespace(Tail(s))

RECURSIVE DropTrailingSpaces(_)
DropTrailingSpaces(s) ==
    IF s = <<>> THEN <<>>
    ELSE IF IsSpace(s[Len(s)]) THEN DropTrailingSpaces(SubSeq(s, 1, Len(s) - 1)) ELSE s

\* str.strip()
Strip(s) == DropTrailingSpaces(DropSpaces(s))

\* str.replace(c, r) for a one-character pattern c and a replacement text r.
RECURSIVE Replace(_, _, _)
Replace(s, c, r) ==
    IF s = <<>> THEN <<>>
    ELSE (IF Head(s) = c THEN r ELSE <<Head(s)>>) \o Replace(Tail(s), c, r)

NormalizeQuotes(s) ==
    LET a == Replace(Replace(s, "U201C", <<"\"">>), "U201D", <<"\"">>)
        b == Replace(Replace(a, "U2018", <<"'">>), "U2019", <<"'">>)
    IN  Replace(Replace(b, "U00AB", <<"\"">>), "U00BB", <<"\"">>)

NormalizeDashes(s) ==
    LET a == Replace(s, "U2013", <<"-">>)
        b == Replace(a, "U2014", <<"U2014">>)
    IN  Replace(b, "U2010", <<"-">>)

NormalizeApostrophes(s) == Replace(Replace(s, "U2019", <<"'">>), "U02BC", <<"'">>)

NormalizeNbsp(s) == Replace(Replace(s, "U00A0", <<" ">>), "U202F", <<" ">>)

NormalizeLigatures(s) ==
    LET a == Replace(s, "UFB01", <<"f", "i">>)
        b == Replace(a, "UFB02", <<"f", "l">>)
        c == Replace(b, "UFB00", <<"f", "f">>)
        d == Replace(c, "UFB03", <<"f", "f", "i">>)
    IN  Replace(d, "UFB04", <<"f", "f", "l">>)

normalize(text) ==
    IF text = <<>> THEN <<>>
    ELSE NormalizeLigatures(NormalizeNbsp(NormalizeApostrophes(NormalizeDashes(
             NormalizeQuotes(Strip(CollapseWhitespace(text)))))))

\* ------------------------------------------------------------------------
\* Config: zoom triggers
\* ------------------------------------------------------------------------
\* Font sizes are counted in tenths of a point: 6.5pt is 65.
ZOOM_FONT_SIZE_THRESHOLD == 65

ZOOM_ON_NUMBERS == TRUE

ZOOM_ON_PERCENTAGE == TRUE

ZOOM_ON_DECIMALS == TRUE

ZOOM_ON_UNITS == TRUE

ZOOM_ON_NEGATION == TRUE

ZOOM_CONFIDENCE_THRESHOLD == 100

ZOOM_FUZZY_THRESHOLD == 100

\* The unit words of UNIT_PATTERNS[0] and UNIT_PATTERNS[1] that are plain
\* literals (the fl. oz. alternatives are in UnitEnds0).
UNIT_WORDS_0 ==
    {<<"m", "g">>, <<"g">>, <<"k", "g">>, <<"m", "l">>, <<"m", "L">>, <<"M", "L">>,
     <<"l">>, <<"L">>, <<"o", "z">>, <<"O", "Z">>, <<"p", "t">>, <<"q", "t">>,
     <<"g", "a", "l">>}

UNIT_WORDS_1 ==
    {<<"m", "m">>, <<"c", "m">>, <<"m">>, <<"i", "n">>, <<"i", "n", "c", "h">>,
     <<"i", "n", "c", "h", "e", "s">>, <<"f", "t">>, <<"f", "e", "e", "t">>}

NEGATION_WORDS ==
    << <<"n", "o">>, <<"n", "o", "t">>, <<"f", "r", "e", "e">>, <<"o", "n", "l", "y">>,
       <<"w", "i", "t", "h", "o", "u", "t">>, <<"n", "e", "v", "e", "r">>,
       <<"n", "o", "n", "e">>, <<"z", "e", "r", "o">>, <<"m", "o", "i", "n", "s">>,
       <<"s", "a", "n", "s">>, <<"n", "o", "n">>, <<"a", "u", "c", "u", "n">> >>

\* ------------------------------------------------------------------------
\* Regular-expression matching.  A position p in 1..Len(t)+1 stands before
\* character p; each operator maps the set of positions where a piece of
\* the pattern may start to the set of positions where it may end.
\* ------------------------------------------------------------------------
\* \b
WordBoundary(t, p) ==
    (p > 1 /\ IsWord(t[p - 1])) # (p <= Len(t) /\ IsWord(t[p]))

\* \d+
AfterDigits(t, P) ==
    {q \in 2..(Len(t) + 1) : \E p \in P : p < q /\ \A k \in p..(q - 1) : IsDigit(t[k])}

\* \s*
AfterSpaces0(t, P) ==
    {q \in 1..(Len(t) + 1) : \E p \in P : p <= q /\ \A k \in p..(q - 1) : IsSpace(t[k])}

\* \s+
AfterSpaces1(t, P) ==
    {q \in 2..(Len(t) + 1) : \E p \in P : p < q /\ \A k \in p..(q - 1) : IsSpace(t[k])}

\* a literal word; ic is re.IGNORECASE
AfterLit(t, P, w, ic) ==
    {p + Len(w) : p \in {x \in P : /\ x + Len(w) - 1 <= Len(t)
                                  /\ \A k \in 1..Len(w) :
                                        IF ic THEN LowerChar(t[x + k - 1]) = LowerChar(w[k])
                                        ELSE t[x + k - 1] = w[k]}}

\* \.?
AfterOptDot(t, P) == P \cup AfterLit(t, P, <<".">>, FALSE)

\* fl\.?\s*oz
AfterFlOz(t, P) ==
    AfterLit(t, AfterSpaces0(t, AfterOptDot(t, AfterLit(t, P, <<"f", "l">>, TRUE))),
             <<"o", "z">>, TRUE)

\* (mg|g|kg|ml|mL|ML|l|L|oz|OZ|fl\.?\s*oz|FL\.?\s*OZ|pt|qt|gal)
UnitEnds0(t, P) ==
    (UNION {AfterLit(t, P, w, TRUE) : w \in UNIT_WORDS_0}) \cup AfterFlOz(t, P)

\* (mm|cm|m|in|inch|inches|ft|feet)
UnitEnds1(t, P) == UNION {AfterLit(t, P, w, TRUE) : w \in UNIT_WORDS_1}

\* re.search(UNIT_PATTERNS[0], t, re.IGNORECASE)
SearchUnit0(t) ==
    \E p \in 1..Len(t) :
        /\ WordBoundary(t, p)
        /\ \E q \in UnitEnds0(t, AfterSpaces0(t, AfterDigits(t, {p}))) : WordBoundary(t, q)

\* re.search(UNIT_PATTERNS[1], t, re.IGNORECASE)
SearchUnit1(t) ==
    \E p \in 1..Len(t) :
        /\ WordBoundary(t, p)
        /\ \E q \in UnitEnds1(t, AfterSpaces0(t, AfterDigits(t, {p}))) : WordBoundary(t, q)

\* re.search(r'\bUS\s+FL\.?\s*OZ\.?\b', t, re.IGNORECASE)
SearchUnit2(t) ==
    \E p \in 1..Len(t) :
        /\ WordBoundary(t, p)
        /\ \E q \in AfterOptDot(t, AfterLit(t, AfterSpaces0(t, AfterOptDot(t,
                        AfterLit(t, AfterSpaces1(t, AfterLit(t, {p}, <<"U", "S">>, TRUE)),
                                 <<"F", "L">>, TRUE))), <<"O", "Z">>, TRUE)) :
               WordBoundary(t, q)

\* re.search(r'\d', t)
SearchDigit(t) == \E i \in 1..Len(t) : IsDigit(t[i])

\* re.search(r'\d+\.\d+', t)
SearchDecimal(t) ==
    \E i \in 1..(Len(t) - 2) : IsDigit(t[i]) /\ t[i + 1] = "." /\ IsDigit(t[i + 2])

\* The word found anywhere in t, inside a longer word too.
SearchWord_Substring(t, w) == \E p \in 1..Len(t) : AfterLit(t, {p}, w, FALSE) # {}

\* re.search(rf'\b{re.escape(w)}\b', t)
SearchWord(t, w) ==
    \E p \in 1..Len(t) :
        /\ WordBoundary(t, p)
        /\ \E q \in AfterLit(t, {p}, w, FALSE) : WordBoundary(t, q)

\* ------------------------------------------------------------------------
\* ZoomTriggerDetector.check_triggers
\* ------------------------------------------------------------------------
\* A reason string, by its kind; a negation reason also names the word.
Reason(kind, word) == [type |-> "str", kind |-> kind, word |-> word]

FirstNegation(text_lower) ==
    LET hits == {i \in 1..Len(NEGATION_WORDS) : SearchWord(text_lower, NEGATION_WORDS[i])}
    IN  IF hits = {} THEN <<>>
        ELSE <<Reason("negation", NEGATION_WORDS[CHOOSE i \in hits : \A j \in hits : i <= j])>>

\* check_triggers with a unit loop that does not stop at the first pattern
\* found: one units reason for each pattern of UNIT_PATTERNS found.
check_triggers_ReasonPerPattern(text, font_size, confidence, fuzzy_score) ==
    LET t1 == IF font_size # None /\ font_size[1] <= ZOOM_FONT_SIZE_THRESHOLD
              THEN <<Reason("font_size", <<>>)>> ELSE <<>>
        t2 == IF confidence < ZOOM_CONFIDENCE_THRESHOLD
              THEN <<Reason("confidence", <<>>)>> ELSE <<>>
        t3 == IF fuzzy_score < ZOOM_FUZZY_THRESHOLD
              THEN <<Reason("fuzzy", <<>>)>> ELSE <<>>
        t4 == IF ZOOM_ON_NUMBERS /\ SearchDigit(text)
              THEN <<Reason("numbers", <<>>)>> ELSE <<>>
        t5 == IF ZOOM_ON_PERCENTAGE /\ \E i \in 1..Len(text) : text[i] = "%"
              THEN <<Reason("percentage", <<>>)>> ELSE <<>>
        t6 == IF ZOOM_ON_DECIMALS /\ SearchDecimal(text)
              THEN <<Reason("decimals", <<>>)>> ELSE <<>>
        u0 == IF SearchUnit0(text) THEN <<Reason("units", <<>>)>> ELSE <<>>
        u1 == IF SearchUnit1(text) THEN <<Reason("units", <<>>)>> ELSE <<>>
        u2 == IF SearchUnit2(text) THEN <<Reason("units", <<>>)>> ELSE <<>>
        t7 == IF ZOOM_ON_UNITS THEN u0 \o u1 \o u2 ELSE <<>>
        t8 == IF ZOOM_ON_NEGATION THEN FirstNegation(ToLower(text)) ELSE <<>>
        triggers == t1 \o t2 \o t3 \o (IF text # <<>> THEN t4 \o t5 \o t6 \o t7 \o t8 ELSE <<>>)
    IN  <<PyBool(Len(triggers) > 0), PyList(triggers)>>

\* Returns the tuple (requires_zoom, reasons), each item a Python value with
\* its type.  font_size is None or Some(size), the size in tenths of a point;
\* confidence and fuzzy_score are percentages.
check_triggers(text, font_size, confidence, fuzzy_score) ==
    LET t1 == IF font_size # None /\ font_size[1] <= ZOOM_FONT_SIZE_THRESHOLD
              THEN <<Reason("font_size", <<>>)>> ELSE <<>>
        t2 == IF confidence < ZOOM_CONFIDENCE_THRESHOLD
              THEN <<Reason("confidence", <<>>)>> ELSE <<>>
        t3 == IF fuzzy_score < ZOOM_FUZZY_THRESHOLD
              THEN <<Reason("fuzzy", <<>>)>> ELSE <<>>
        t4 == IF ZOOM_ON_NUMBERS /\ SearchDigit(text)
              THEN <<Reason("numbers", <<>>)>> ELSE <<>>
        t5 == IF ZOOM_ON_PERCENTAGE /\ \E i \in 1..Len(text) : text[i] = "%"
              THEN <<Reason("percentage", <<>>)>> ELSE <<>>
        t6 == IF ZOOM_ON_DECIMALS /\ SearchDecimal(text)
              THEN <<Reason("decimals", <<>>)>> ELSE <<>>
        t7 == IF ZOOM_ON_UNITS /\ (SearchUnit0(text) \/ SearchUnit1(text) \/ SearchUnit2(text))
              THEN <<Reason("units", <<>>)>> ELSE <<>>
        t8 == IF ZOOM_ON_NEGATION THEN FirstNegation(ToLower(text)) ELSE <<>>
        triggers == t1 \o t2 \o t3 \o (IF text # <<>> THEN t4 \o t5 \o t6 \o t7 \o t8 ELSE <<>>)
    IN  <<PyBool(Len(triggers) > 0), PyList(triggers)>>

\* ------------------------------------------------------------------------
\* difflib.SequenceMatcher(None, a, b).ratio()
\* (texts stay far below the 200 characters at which autojunk starts)
\* ------------------------------------------------------------------------
\* The length of the common run of a from i and b from j, inside a[..ahi-1]
\* and b[..bhi-1].
RECURSIVE CommonRun(_, _, _, _, _, _)
CommonRun(a, b, i, j, ahi, bhi) ==
    IF i < ahi /\ j < bhi /\ a[i] = b[j] THEN 1 + CommonRun(a, b, i + 1, j + 1, ahi, bhi)
    ELSE 0

\* The first of the longest blocks: size gives the length of the common run
\* that starts at each pair of starts.
BestBlock(starts, size) ==
    CHOOSE p \in starts :
        \A q \in starts :
            \/ size[p] > size[q]
            \/ /\ size[p] = size[q]
               /\ \/ p[1] < q[1]
                  \/ p[1] = q[1] /\ p[2] <= q[2]

LongestBlock(starts, size, alo, blo) ==
    IF starts = {} THEN <<alo, blo, 0>>
    ELSE <<BestBlock(starts, size)[1], BestBlock(starts, size)[2],
           size[BestBlock(starts, size)]>>

BlockSizes(a, b, ahi, bhi, starts) ==
    [p \in starts |-> CommonRun(a, b, p[1], p[2], ahi, bhi)]

\* The longest matching block <<i, j, k>> of a[alo..ahi-1] and b[blo..bhi-1]:
\* of the longest blocks the one that starts earliest in a, and of those the
\* one that starts earliest in b; <<alo, blo, 0>> when nothing matches.
find_longest_match(a, b, alo, ahi, blo, bhi) ==
    LongestBlock({p \in (alo..(ahi - 1)) \X (blo..(bhi - 1)) : a[p[1]] = b[p[2]]},
                 BlockSizes(a, b, ahi, bhi,
                            {p \in (alo..(ahi - 1)) \X (blo..(bhi - 1)) : a[p[1]] = b[p[2]]}),
                 alo, blo)

\* The total size of get_matching_blocks(): the longest block m = <<i, j, k>>,
\* then the blocks of the pieces to its left and to its right.
RECURSIVE MatchedSize(_, _, _, _, _, _)
RECURSIVE MatchedAround(_, _, _, _, _, _, _)
MatchedAround(a, b, alo, ahi, blo, bhi, m) ==
    IF m[3] = 0 THEN 0
    ELSE m[3]
         + (IF alo < m[1] /\ blo < m[2] THEN MatchedSize(a, b, alo, m[1], blo, m[2]) ELSE 0)
         + (IF m[1] + m[3] < ahi /\ m[2] + m[3] < bhi
            THEN MatchedSize(a, b, m[1] + m[3], ahi, m[2] + m[3], bhi) ELSE 0)

MatchedSize(a, b, alo, ahi, blo, bhi) ==
    MatchedAround(a, b, alo, ahi, blo, bhi, find_longest_match(a, b, alo, ahi, blo, bhi))

\* A score is the exact fraction num/den of 100 percent: ratio() is
\* 2.0 * matches / length, 1.0 for two empty texts.
Score(num, den) == [num |-> num, den |-> den]

\* The similarity of the two texts with their letter case set aside.
ratio_IgnoreCase(a, b) ==
    IF Len(a) + Len(b) = 0 THEN Score(1, 1)
    ELSE Score(2 * MatchedSize(ToLower(a), ToLower(b), 1, Len(a) + 1, 1, Len(b) + 1),
               Len(a) + Len(b))

ratio(a, b) ==
    IF Len(a) + Len(b) = 0 THEN Score(1, 1)
    ELSE Score(2 * MatchedSize(a, b, 1, Len(a) + 1, 1, Len(b) + 1), Len(a) + Len(b))

\* s > t for two scores
ScoreGreater(s, t) == s.num * t.den > t.num * s.den

\* score >= threshold, the threshold a percentage
ScoreAtLeast(s, threshold) == 100 * s.num >= threshold * s.den

\* ------------------------------------------------------------------------
\* ArtworkMatcher._build_text_lookup
\* A run is named by its index in text_runs.
\* ------------------------------------------------------------------------
\* An index that keeps, for each key, the first run only.
_build_text_lookup_FirstRunOnly(text_runs) ==
    LET keys == {normalize(text_runs[i].text) : i \in 1..Len(text_runs)} \ {<<>>}
    IN  [k \in keys |->
            <<CHOOSE i \in 1..Len(text_runs) :
                  /\ normalize(text_runs[i].text) = k
                  /\ \A j \in 1..(i - 1) : normalize(text_runs[j].text) # k>>]

_build_text_lookup(text_runs) ==
    LET keys == {normalize(text_runs[i].text) : i \in 1..Len(text_runs)} \ {<<>>}
    IN  [k \in keys |->
            SelectSeq([i \in 1..Len(text_runs) |-> i],
                      LAMBDA i : normalize(text_runs[i].text) = k)]

\* ------------------------------------------------------------------------
\* ArtworkMatcher._fuzzy_match_with_sliding_window
\* ------------------------------------------------------------------------
Min(x, y) == IF x <= y THEN x ELSE y

\* ' '.join(parts)
RECURSIVE JoinSpace(_)
JoinSpace(parts) ==
    IF parts = <<>> THEN <<>>
    ELSE IF Len(parts) = 1 THEN parts[1]
    ELSE parts[1] \o <<" ">> \o JoinSpace(Tail(parts))

\* The window's texts put together with no separator between them.
RECURSIVE JoinEmpty(_)
JoinEmpty(parts) == IF parts = <<>> THEN <<>> ELSE parts[1] \o JoinEmpty(Tail(parts))

Concatenated_NoSeparator(text_runs, i, window_size) ==
    JoinEmpty(SelectSeq([k \in 1..window_size |-> normalize(text_runs[i + k - 1].text)],
                        LAMBDA t : t # <<>>))

\* The concatenation of the window of window_size runs that starts at run i:
\* the non-empty normalized texts, joined by single spaces.
Concatenated(text_runs, i, window_size) ==
    JoinSpace(SelectSeq([k \in 1..window_size |-> normalize(text_runs[i + k - 1].text)],
                        LAMBDA t : t # <<>>))

\* The candidates in the order the loops visit them: every run with a
\* non-empty normalized text, then the windows of 2 to 5 runs by size and
\* start, those with an empty concatenation skipped.
\* Windows of every size from 2 up to the number of runs.
RECURSIVE WindowCandidates_AnySize(_, _, _)
WindowCandidates_AnySize(text_runs, window_size, i) ==
    IF window_size >= Len(text_runs) + 1 THEN <<>>
    ELSE IF i > Len(text_runs) - window_size + 1
         THEN WindowCandidates_AnySize(text_runs, window_size + 1, 1)
         ELSE LET concatenated == Concatenated(text_runs, i, window_size)
                  window_runs == [k \in 1..window_size |-> i + k - 1]
              IN  (IF concatenated = <<>> THEN <<>>
                   ELSE <<[text |-> concatenated, runs |-> window_runs]>>)
                  \o WindowCandidates_AnySize(text_runs, window_size, i + 1)

RECURSIVE WindowCandidates(_, _, _)
WindowCandidates(text_runs, window_size, i) ==
    IF window_size >= Min(6, Len(text_runs) + 1) THEN <<>>
    ELSE IF i > Len(text_runs) - window_size + 1
         THEN WindowCandidates(text_runs, window_size + 1, 1)
         ELSE LET concatenated == Concatenated(text_runs, i, window_size)
                  window_runs == [k \in 1..window_size |-> i + k - 1]
              IN  (IF concatenated = <<>> THEN <<>>
                   ELSE <<[text |-> concatenated, runs |-> window_runs]>>)
                  \o WindowCandidates(text_runs, window_size, i + 1)

\* Only the runs extracted with full confidence are candidates.
RunCandidates_ConfidentOnly(text_runs) ==
    LET all == [i \in 1..Len(text_runs) |->
                   [text |-> normalize(text_runs[i].text), runs |-> <<i>>,
                    confidence |-> text_runs[i].confidence]]
        kept == SelectSeq(all, LAMBDA c : c.text # <<>> /\ c.confidence = 100)
    IN  [k \in 1..Len(kept) |-> [text |-> kept[k].text, runs |-> kept[k].runs]]

RunCandidates(text_runs) ==
    LET all == [i \in 1..Len(text_runs) |->
                   [text |-> normalize(text_runs[i].text), runs |-> <<i>>]]
    IN  SelectSeq(all, LAMBDA c : c.text # <<>>)

Candidates(text_runs) == RunCandidates(text_runs) \o WindowCandidates(text_runs, 2, 1)

\* The loops' running best: a candidate replaces it only with a strictly
\* greater score.
RECURSIVE ScanBest(_, _, _, _, _)
RECURSIVE ScanStep(_, _, _, _, _, _)
\* A candidate replaces the running best with an equal score too.
ScanStep_LastWins(normalized_copy, cands, k, best_score, best_match, score) ==
    IF ~ScoreGreater(best_score, score)
    THEN ScanBest(normalized_copy, cands, k + 1, score, Some(cands[k]))
    ELSE ScanBest(normalized_copy, cands, k + 1, best_score, best_match)

ScanStep(normalized_copy, cands, k, best_score, best_match, score) ==
    IF ScoreGreater(score, best_score)
    THEN ScanBest(normalized_copy, cands, k + 1, score, Some(cands[k]))
    ELSE ScanBest(normalized_copy, cands, k + 1, best_score, best_match)

ScanBest(normalized_copy, cands, k, best_score, best_match) ==
    IF k > Len(cands) THEN [best_score |-> best_score, best_match |-> best_match]
    ELSE ScanStep(normalized_copy, cands, k, best_score, best_match,
                  ratio(normalized_copy, cands[k].text))

\* The thresholds written into the code as the literals 100, 95 and 95.
FuzzyResult_LiteralThresholds(config, best_score, best_match) ==
    IF best_match # None /\ ScoreAtLeast(best_score, 95)
    THEN Some(<<IF ScoreAtLeast(best_score, 100)
                THEN "EXACT_MATCH"
                ELSE IF ScoreAtLeast(best_score, 95) THEN "NEAR_MATCH" ELSE "MISMATCH",
                best_score, best_match[1].text, best_match[1].runs>>)
    ELSE None

\* if best_match and best_score >= self.config.MISMATCH_THRESHOLD: ...
FuzzyResult(config, best_score, best_match) ==
    IF best_match # None /\ ScoreAtLeast(best_score, config.MISMATCH_THRESHOLD)
    THEN Some(<<IF ScoreAtLeast(best_score, config.EXACT_MATCH_THRESHOLD)
                THEN "EXACT_MATCH"
                ELSE IF ScoreAtLeast(best_score, config.NEAR_MATCH_THRESHOLD)
                     THEN "NEAR_MATCH"
                     ELSE "MISMATCH",
                best_score, best_match[1].text, best_match[1].runs>>)
    ELSE None

BestOf(config, scan) == FuzzyResult(config, scan.best_score, scan.best_match)

\* Returns None or Some of the tuple
\* (match_type, fuzzy_score, matched_text, matched_runs).
_fuzzy_match_with_sliding_window(config, normalized_copy, text_runs) ==
    BestOf(config, ScanBest(normalized_copy, Candidates(text_runs), 1, Score(0, 1), None))

\* ------------------------------------------------------------------------
\* MatchFinding (dataclass)
\* ------------------------------------------------------------------------
MatchFindingRequired ==
    {"field_name", "panel", "language", "copy_value", "artwork_value", "match_type",
     "similarity_score", "status_code"}

MatchFindingDefaults ==
    [notes |-> <<>>, requires_zoom |-> FALSE, zoom_reasons |-> <<>>, issue_id |-> None,
     bbox |-> None]

MatchFindingFields == MatchFindingRequired \cup DOMAIN MatchFindingDefaults

\* The generated __init__, called with keyword arguments only: a keyword
\* that is no field, or a field without default that is not given, raises
\* TypeError.
MatchFinding(kwargs) ==
    IF \/ ~(DOMAIN kwargs \subseteq MatchFindingFields)
       \/ ~(MatchFindingRequired \subseteq DOMAIN kwargs)
    THEN Raise("TypeError")
    ELSE Value([f \in MatchFindingFields |->
                   IF f \in DOMAIN kwargs THEN kwargs[f] ELSE MatchFindingDefaults[f]])

\* ------------------------------------------------------------------------
\* Python built-ins used on the zoom triggers
\* ------------------------------------------------------------------------
\* bool(x) of a tuple or a list: whether it has items.
bool(x) == Len(x) > 0

\* ', '.join(items): TypeError unless every item is a str.
join(items) ==
    IF \E i \in 1..Len(items) : items[i].type # "str" THEN Raise("TypeError")
    ELSE Value(items)

\* A notes string: its fixed text and the zoom reasons joined into it.
Notes(text, zoom) == [text |-> text, zoom |-> zoom]

\* text + (f" | Zoom: {', '.join(zoom_triggers)}" if zoom_triggers else "")
NotesWithZoom(text, zoom_triggers) ==
    IF bool(zoom_triggers)
    THEN LET joined == join(zoom_triggers)
         IN  IF joined.exc # NoException THEN Raise(joined.exc)
             ELSE Value(Notes(text, joined.val))
    ELSE Value(Notes(text, <<>>))

\* ------------------------------------------------------------------------
\* ArtworkMatcher._generate_match_notes
\* ------------------------------------------------------------------------
_generate_match_notes(is_exact, requires_visual, zoom_triggers) ==
    IF is_exact /\ ~requires_visual THEN Value(Notes("Exact match", <<>>))
    ELSE IF is_exact /\ requires_visual
         THEN LET joined == join(zoom_triggers)
              IN  IF joined.exc # NoException THEN Raise(joined.exc)
                  ELSE Value(Notes("Exact match - VERIFY VISUALLY", joined.val))
         ELSE Value(Notes("", <<>>))

\* ------------------------------------------------------------------------
\* ArtworkMatcher._match_single_field
\* ------------------------------------------------------------------------
\* MatchFinding(**kw, notes=...): the keyword arguments are evaluated in
\* order, notes last, and then the constructor runs.  The result holds the
\* finding or the exception, and the keyword arguments that were evaluated.
Construct(kw, notes) ==
    IF notes.exc # NoException THEN [exc |-> notes.exc, val |-> None, kwargs |-> kw]
    ELSE LET all == kw @@ [notes |-> notes.val]
             made == MatchFinding(all)
         IN  [exc |-> made.exc, val |-> made.val, kwargs |-> all]

\* The keyword arguments before notes.
Kwargs(field, match_type, status, artwork_value, matched_runs, fuzzy_score, zoom_triggers) ==
    [copy_field |-> field, match_type |-> match_type, status |-> status,
     artwork_value |-> artwork_value, matched_runs |-> matched_runs,
     fuzzy_score |-> fuzzy_score, zoom_triggers |-> zoom_triggers]

\* status=StatusCode.TBD if requires_visual else StatusCode.OK
ExactStatus(requires_visual) == IF requires_visual THEN "TBD" ELSE "OK"

\* status=StatusCode.TBD if requires_visual else StatusCode.ATTN
NearStatus(requires_visual) == IF requires_visual THEN "TBD" ELSE "ATTN"

\* status=StatusCode.FAIL of the mismatch branch
MismatchStatus_Attention == "ATTN"

MismatchStatus == "FAIL"

\* status=StatusCode.FAIL of the field that was not found
MissingStatus == "FAIL"

\* fuzzy_score >= self.config.EXACT_MATCH_THRESHOLD
IsExactScore_NearThreshold(config, fuzzy_score) ==
    ScoreAtLeast(fuzzy_score, config.NEAR_MATCH_THRESHOLD)

IsExactScore(config, fuzzy_score) == ScoreAtLeast(fuzzy_score, config.EXACT_MATCH_THRESHOLD)

\* fuzzy_score >= self.config.NEAR_MATCH_THRESHOLD
IsNearScore(config, fuzzy_score) == ScoreAtLeast(fuzzy_score, config.NEAR_MATCH_THRESHOLD)

\* The keyword arguments of the finding for a field that was not found.
MissingKwargs_KeepsCopyValue(field, zoom_triggers) ==
    Kwargs(field, "MISSING_IN_ARTWORK", MissingStatus, Some(field.text), <<>>, Score(0, 1),
           zoom_triggers)

\* The finding for a field that was not found given the score 100.
MissingKwargs_FullScore(field, zoom_triggers) ==
    Kwargs(field, "MISSING_IN_ARTWORK", MissingStatus, None, <<>>, Score(1, 1),
           zoom_triggers)

MissingKwargs(field, zoom_triggers) ==
    Kwargs(field, "MISSING_IN_ARTWORK", MissingStatus, None, <<>>, Score(0, 1),
           zoom_triggers)

\* if best_match: ... the three branches on fuzzy_score, and the final
\* return of the finding for a field that was not found.
MatchFuzzy(config, field, zoom_triggers, requires_visual, best_match) ==
    IF best_match # None
    THEN IF IsExactScore(config, best_match[1][2])
         THEN Construct(Kwargs(field, "EXACT_MATCH", ExactStatus(requires_visual),
                               Some(best_match[1][3]), best_match[1][4], best_match[1][2],
                               zoom_triggers),
                        _generate_match_notes(TRUE, requires_visual, zoom_triggers))
         ELSE IF IsNearScore(config, best_match[1][2])
         THEN Construct(Kwargs(field, "NEAR_MATCH", NearStatus(requires_visual),
                               Some(best_match[1][3]), best_match[1][4], best_match[1][2],
                               zoom_triggers),
                        NotesWithZoom("Near match - verify differences", zoom_triggers))
         ELSE Construct(Kwargs(field, "MISMATCH", MismatchStatus,
                               Some(best_match[1][3]), best_match[1][4], best_match[1][2],
                               zoom_triggers),
                        NotesWithZoom("Mismatch detected", zoom_triggers))
    ELSE Construct(MissingKwargs(field, zoom_triggers),
                   NotesWithZoom("NOT FOUND in artwork", zoom_triggers))

\* if normalized_copy in artwork_lookup: ... else the fuzzy matching
MatchNormalized(config, field, text_runs, artwork_lookup, normalized_copy, zoom_triggers, requires_visual) ==
    IF normalized_copy \in DOMAIN artwork_lookup
    THEN Construct(Kwargs(field, "EXACT_MATCH", ExactStatus(requires_visual),
                          Some(field.text), artwork_lookup[normalized_copy], Score(1, 1),
                          zoom_triggers),
                   _generate_match_notes(TRUE, requires_visual, zoom_triggers))
    ELSE MatchFuzzy(config, field, zoom_triggers, requires_visual,
                    _fuzzy_match_with_sliding_window(config, normalized_copy, text_runs))

\* requires_visual = bool(zoom_triggers)
MatchZoomed(config, field, text_runs, artwork_lookup, normalized_copy, zoom_triggers) ==
    MatchNormalized(config, field, text_runs, artwork_lookup, normalized_copy,
                    zoom_triggers, bool(zoom_triggers))

_match_single_field(config, field, text_runs, artwork_lookup) ==
    MatchZoomed(config, field, text_runs, artwork_lookup, normalize(field.text),
                check_triggers(field.text, None, 100, 100))

\* ------------------------------------------------------------------------
\* The texts of the copy documents and artworks that the model runs on
\* ------------------------------------------------------------------------
Text_250mL ==
    <<"2", "5", "0", " ", "m", "L">>

Text_BodyButter ==
    <<"B", "o", "d", "y", " ", "B", "u", "t", "t", "e", "r">>

Text_NoParabens ==
    <<"n", "o", " ", "p", "a", "r", "a", "b", "e", "n", "s">>

Text_KeepOut ==
    <<"K", "e", "e", "p", " ", "o", "u", "t", " ", "o", "f", " ", "s", "u", "n", "l",
      "i", "g", "h", "t">>

Text_NetWt250mL ==
    <<"N", "e", "t", " ", "W", "t", " ", "2", "5", "0", " ", "m", "L">>

Text_Blank ==
    <<" ", " ">>

Text_Aloe ==
    <<"C", "o", "n", "t", "a", "i", "n", "s", " ", "5", "0", "%", " ", "a", "l", "o",
      "e">>

Text_MadeInUsa ==
    <<"M", "a", "d", "e", " ", "i", "n", " ", "U", "S", "A">>

Text_Net ==
    <<"N", "e", "t">>

Text_Wt ==
    <<"W", "t">>

Text_250 ==
    <<"2", "5", "0">>

Text_mL ==
    <<"m", "L">>

Text_Est ==
    <<"E", "S", "T", ".">>

Text_BodyButterNbsp ==
    <<"B", "o", "d", "y", "U00A0", " ", "B", "u", "t", "t", "e", "r">>

Text_KeepOutTypo ==
    <<"K", "e", "e", "p", " ", "o", "u", "t", " ", "o", "f", " ", "s", "u", "n", "l",
      "i", "g", "h", "T">>

Text_Tab ==
    <<"TAB">>

Text_Aloe5 ==
    <<"C", "o", "n", "t", "a", "i", "n", "s", " ", "5", "%", " ", "a", "l", "o", "e">>

Text_MadeInUsaDot ==
    <<"M", "a", "d", "e", " ", "i", "n", " ", "U", "S", "A", ".">>

Text_NoParabensCaps ==
    <<"N", "o", " ", "P", "a", "r", "a", "b", "e", "n", "s">>

Text_250mLNarrow ==
    <<"2", "5", "0", "U202F", "m", "L">>

\* ------------------------------------------------------------------------
\* CopyField, TextRun, ExtractionMethod, Config: the inputs of match_fields
\* ------------------------------------------------------------------------
CopyField(field_name, panel, text) ==
    [field_name |-> field_name, panel |-> panel, language |-> "EN", text |-> text]

\* font_size is None or Some(size in tenths of a point); confidence is 0..100
\* percent of the 0.0-1.0 scale.
TextRun(text, page_number, font_size, confidence) ==
    [text |-> text, page_number |-> page_number, font_size |-> font_size,
     confidence |-> confidence]

ExtractionMethod == {"LIVE_TEXT", "AI_PDF_COMPATIBLE", "VISION_SYSTEM", "FAILED"}

\* The methods that an extractor sets: nothing produces VISION_SYSTEM.
ProducedMethods == ExtractionMethod \ {"VISION_SYSTEM"}

EXACT_MATCH_THRESHOLD == 100

NEAR_MATCH_THRESHOLD == 95

MISMATCH_THRESHOLD == 95

\* The thresholds as the module sets them, and as an override that leaves
\* room between the near-match and the mismatch threshold.
Config ==
    [EXACT_MATCH_THRESHOLD |-> EXACT_MATCH_THRESHOLD,
     NEAR_MATCH_THRESHOLD |-> NEAR_MATCH_THRESHOLD,
     MISMATCH_THRESHOLD |-> MISMATCH_THRESHOLD]

ConfigOverride ==
    [EXACT_MATCH_THRESHOLD |-> 100, NEAR_MATCH_THRESHOLD |-> 90, MISMATCH_THRESHOLD |-> 60]

CopyDocument ==
    << CopyField("Net Weight", "Front Panel", Text_250mL),
       CopyField("Product Name", "Front Panel", Text_BodyButter),
       CopyField("Claim", "Front Panel", Text_NoParabens),
       CopyField("Directions", "Back Panel", Text_KeepOut),
       CopyField("Fill Weight", "Back Panel", Text_NetWt250mL),
       CopyField("Legal", "Back Panel", Text_Blank),
       CopyField("Ingredients", "Side Panel", Text_Aloe),
       CopyField("Origin", "Side Panel", Text_MadeInUsa) >>

ArtworkA ==
    << TextRun(Text_Net, 2, Some(50), 100),
       TextRun(Text_Wt, 2, Some(50), 100),
       TextRun(Text_250, 2, Some(50), 100),
       TextRun(Text_mL, 2, Some(50), 100),
       TextRun(Text_Est, 2, Some(50), 100),
       TextRun(Text_BodyButterNbsp, 1, Some(240), 100),
       TextRun(Text_KeepOutTypo, 1, Some(80), 90),
       TextRun(Text_Tab, 1, None, 100) >>

ArtworkB ==
    << TextRun(Text_NoParabensCaps, 1, Some(100), 100),
       TextRun(Text_Aloe5, 1, Some(65), 100),
       TextRun(Text_250mLNarrow, 1, Some(80), 100),
       TextRun(Text_250mL, 2, Some(60), 100),
       TextRun(Text_MadeInUsaDot, 2, None, 80),
       TextRun(Text_BodyButter, 1, Some(240), 100),
       TextRun(Text_Blank, 1, None, 100),
       TextRun(Text_NoParabens, 1, Some(100), 100) >>

\* The runs of consecutive items of base, at most max long (the empty one
\* included).
Slices(base, max) ==
    LET ends(i) == (i - 1)..Min(Len(base), i + max - 1)
    IN  UNION {{SubSeq(base, i, j) : j \in ends(i)} : i \in 1..Len(base)}

\* ------------------------------------------------------------------------
\* ArtworkMatcher.match_fields as a state machine
\* ------------------------------------------------------------------------
VARIABLES
    config,               \* self.config
    copy_fields,          \* argument
    text_runs,            \* argument
    extraction_method,    \* argument
    pc,                   \* "start", "fail_fast", "match", "returned", "raised"
    findings,             \* the local list of findings
    artwork_text_lookup,  \* the local exact-match index
    field_index,          \* the position of the for loop in copy_fields
    kwargs,               \* the keyword arguments evaluated for the last MatchFinding(...)
    exc,                  \* the exception that left match_fields
    results,              \* the local list of check_conversions
    all_text_runs         \* the local list of PDFExtractor.extract

vars ==
    <<config, copy_fields, text_runs, extraction_method, pc, findings,
      artwork_text_lookup, field_index, kwargs, exc, results, all_text_runs>>

inputs == <<config, copy_fields, text_runs, extraction_method>>

Init ==
    /\ config \in {Config, ConfigOverride}
    /\ copy_fields \in Slices(CopyDocument, MaxFields)
    /\ text_runs \in Slices(ArtworkA, MaxRuns) \cup Slices(ArtworkB, MaxRuns)
    /\ extraction_method \in ProducedMethods
    /\ pc = "start"
    /\ findings = <<>>
    /\ artwork_text_lookup = <<>>
    /\ field_index = 1
    /\ kwargs = <<>>
    /\ exc = NoException
    /\ results = <<>>
    /\ all_text_runs = <<>>

\* One iteration of a loop over copy_fields that builds a finding: the
\* finding is appended, or the exception leaves match_fields.
Iterate(r) ==
    /\ kwargs' = r.kwargs
    /\ IF r.exc # NoException
       THEN /\ pc' = "raised"
            /\ exc' = r.exc
            /\ UNCHANGED <<findings, field_index>>
       ELSE /\ findings' = Append(findings, r.val)
            /\ field_index' = field_index + 1
            /\ UNCHANGED <<pc, exc>>
    /\ UNCHANGED <<inputs, artwork_text_lookup, results, all_text_runs>>

\* if extraction_method == ExtractionMethod.FAILED
FailFast ==
    /\ pc = "start"
    /\ extraction_method = "FAILED"
    /\ pc' = "fail_fast"
    /\ UNCHANGED <<inputs, findings, artwork_text_lookup, field_index, kwargs, exc, results, all_text_runs>>

\* for field in copy_fields: findings.append(MatchFinding(...))
FailFastField ==
    /\ pc = "fail_fast"
    /\ field_index <= Len(copy_fields)
    /\ Iterate(Construct(Kwargs(copy_fields[field_index], "REQUIRES_VERIFICATION", "TBD",
                                 None, <<>>, Score(0, 1), <<>>),
                          Value(Notes("Extraction failed - manual verification required",
                                      <<>>))))

\* artwork_text_lookup = self._build_text_lookup(text_runs)
BuildLookup ==
    /\ pc = "start"
    /\ extraction_method # "FAILED"
    /\ artwork_text_lookup' = _build_text_lookup(text_runs)
    /\ pc' = "match"
    /\ UNCHANGED <<inputs, findings, field_index, kwargs, exc, results, all_text_runs>>

\* The loop body taking the last copy field in place of the current one.
MatchField_LastField ==
    /\ pc = "match"
    /\ field_index <= Len(copy_fields)
    /\ Iterate(_match_single_field(config, copy_fields[Len(copy_fields)], text_runs,
                                   artwork_text_lookup))

\* for field in copy_fields: findings.append(self._match_single_field(...))
MatchField ==
    /\ pc = "match"
    /\ field_index <= Len(copy_fields)
    /\ Iterate(_match_single_field(config, copy_fields[field_index], text_runs,
                                   artwork_text_lookup))

\* return findings
Return ==
    /\ pc \in {"fail_fast", "match"}
    /\ field_index > Len(copy_fields)
    /\ pc' = "returned"
    /\ UNCHANGED <<inputs, findings, artwork_text_lookup, field_index, kwargs, exc, results, all_text_runs>>

Next == FailFast \/ FailFastField \/ BuildLookup \/ MatchField \/ Return

Spec == Init /\ [][Next]_vars

\* ------------------------------------------------------------------------
\* What the claims speak of
\* ------------------------------------------------------------------------
\* match_fields has ended: it returned its findings, or an exception left it.
Finished == pc \in {"returned", "raised"}

\* The i-th copy field has a finding in the returned list.
HasFinding(i) == pc = "returned" /\ i <= Len(findings)

\* A MatchFinding(...) call was reached and its keyword arguments evaluated.
Attempted == DOMAIN kwargs # {}

\* The reasons check_triggers gives for the field the last call was for.
ActiveTriggers == check_triggers(kwargs.copy_field.text, None, 100, 100)[2].val

NormalizedRunTexts == {normalize(text_runs[r].text) : r \in 1..Len(text_runs)}

\* The best similarity of the field text over every run and every window.
BestScore(text) ==
    ScanBest(normalize(text), Candidates(text_runs), 1, Score(0, 1), None).best_score

IsFullScore(score) == score.num = score.den

DefaultThresholds == config = Config

\* C1: with extraction_method FAILED, match_fields returns one finding per
\* copy field, each REQUIRES_VERIFICATION with no matched runs and no artwork
\* value, and the exact index is never built.
C1_FailedYieldsVerificationFindings ==
    (Finished /\ extraction_method = "FAILED") =>
        /\ pc = "returned"
        /\ Len(findings) = Len(copy_fields)
        /\ \A i \in 1..Len(findings) :
               /\ findings[i].match_type = "REQUIRES_VERIFICATION"
               /\ findings[i].matched_runs = <<>>
               /\ findings[i].artwork_value = None
        /\ DOMAIN artwork_text_lookup = {}

\* C2: whatever the input, match_fields returns exactly one finding per copy
\* field, the i-th finding being that of the i-th field.
C2_OneFindingPerFieldInOrder ==
    Finished =>
        /\ pc = "returned"
        /\ Len(findings) = Len(copy_fields)
        /\ \A i \in 1..Len(findings) : findings[i].copy_field = copy_fields[i]

\* C3: extraction not failed, a field whose normalized text equals that of
\* some run has a finding classified EXACT_MATCH with score 100.
C3_NormalizedEqualityIsExact ==
    (Finished /\ extraction_method # "FAILED") =>
        \A i \in 1..Len(copy_fields) :
            normalize(copy_fields[i].text) \in NormalizedRunTexts =>
                /\ HasFinding(i)
                /\ findings[i].match_type = "EXACT_MATCH"
                /\ IsFullScore(findings[i].similarity_score)

\* C4: extraction not failed and the thresholds at 100/95/95, a field that no
\* run and no window of 2 to 5 runs matches at 95 or more has a finding
\* classified MISSING_IN_ARTWORK.
C4_BelowThresholdIsMissing ==
    (Finished /\ extraction_method # "FAILED" /\ DefaultThresholds) =>
        \A i \in 1..Len(copy_fields) :
            ~ScoreAtLeast(BestScore(copy_fields[i].text), 95) =>
                /\ HasFinding(i)
                /\ findings[i].match_type = "MISSING_IN_ARTWORK"

\* C5: extraction not failed and the thresholds at 100/95/95, a field whose
\* best score is 100 has a finding classified EXACT_MATCH, and one whose
\* best score s has 95 <= s < 100 has a finding classified NEAR_MATCH.
C5_ThresholdBoundaries ==
    (Finished /\ extraction_method # "FAILED" /\ DefaultThresholds) =>
        \A i \in 1..Len(copy_fields) :
            /\ ScoreAtLeast(BestScore(copy_fields[i].text), 100) =>
                   HasFinding(i) /\ findings[i].match_type = "EXACT_MATCH"
            /\ ( /\ ScoreAtLeast(BestScore(copy_fields[i].text), 95)
                 /\ ~ScoreAtLeast(BestScore(copy_fields[i].text), 100) ) =>
                   HasFinding(i) /\ findings[i].match_type = "NEAR_MATCH"

\* No state holds a returned finding (C2), so C6 to C10 are stated on the
\* keyword arguments each MatchFinding(...) call is given: the classification,
\* score, status, evidence and artwork value the code decided on.

C7_MissingHasNoEvidenceOthersDo ==
    Attempted =>
        /\ kwargs.match_type = "MISSING_IN_ARTWORK" =>
               kwargs.matched_runs = <<>> /\ kwargs.artwork_value = None
        /\ kwargs.match_type \in {"EXACT_MATCH", "NEAR_MATCH", "MISMATCH"} =>
               Len(kwargs.matched_runs) >= 1

\* A field classified missing although the artwork had runs to compare with.
C7_Witness ==
    /\ Attempted
    /\ kwargs.match_type = "MISSING_IN_ARTWORK"
    /\ Len(text_runs) >= 2

C10_MismatchAndMissingFail ==
    (Attempted /\ kwargs.match_type \in {"MISMATCH", "MISSING_IN_ARTWORK"}) =>
        kwargs.status = "FAIL"

\* A mismatch on a field for which a zoom trigger fired.
C10_Witness ==
    /\ Attempted
    /\ kwargs.match_type = "MISMATCH"
    /\ ActiveTriggers # <<>>
    /\ kwargs.status = "FAIL"

\* The single-space concatenation of the normalized texts of the k runs
\* that start at run i.
JoinedNormalized(i, k) == JoinSpace([j \in 1..k |-> normalize(text_runs[i + j - 1].text)])

\* The windows <<i, k>> of 2 to 5 consecutive runs whose concatenation is text.
ExactWindows(text) ==
    {w \in (1..Len(text_runs)) \X (2..5) :
        w[1] + w[2] - 1 <= Len(text_runs) /\ JoinedNormalized(w[1], w[2]) = text}

WindowRuns(w) == [j \in 1..w[2] |-> w[1] + j - 1]

\* The field of the last MatchFinding(...) call equals a window of runs and
\* no single run.
SpansWindow ==
    /\ Attempted
    /\ extraction_method # "FAILED"
    /\ normalize(kwargs.copy_field.text) \notin NormalizedRunTexts
    /\ ExactWindows(normalize(kwargs.copy_field.text)) # {}

MatchedSmallFont ==
    \E k \in 1..Len(kwargs.matched_runs) :
        /\ text_runs[kwargs.matched_runs[k]].font_size # None
        /\ text_runs[kwargs.matched_runs[k]].font_size[1] <= ZOOM_FONT_SIZE_THRESHOLD

\* The kinds of the zoom reasons handed to the last MatchFinding(...) call.
ReasonKinds == {kwargs.zoom_triggers[2].val[k].kind : k \in 1..Len(kwargs.zoom_triggers[2].val)}

\* C12: a field matched exactly, through the index or through a window, to
\* runs whose font size is at or below 6.5pt has a zoom reason citing the
\* font size, and its status is TBD, not OK.
C12_SmallFontIsZoomReason ==
    (Attempted /\ kwargs.match_type = "EXACT_MATCH" /\ MatchedSmallFont) =>
        "font_size" \in ReasonKinds /\ kwargs.status = "TBD"

\* ------------------------------------------------------------------------
\* match_fields on one field whose text is put together from short pieces,
\* with no artwork runs: the texts check_triggers is given.
\* ------------------------------------------------------------------------
MaxTokens == 3

Tokens ==
    {<<"n", "o">>, <<"n", "o", "t">>, <<"N", "O">>, <<"n">>, <<"e">>, <<"t">>, <<" ">>,
     <<"-">>, <<"_">>, <<"5">>, <<"%">>}

RECURSIVE TokenTexts(_)
TokenTexts(n) ==
    IF n = 0 THEN {<<>>}
    ELSE TokenTexts(n - 1) \cup {t \o k : t \in TokenTexts(n - 1), k \in Tokens}

TriggerInit ==
    /\ config = Config
    /\ copy_fields \in {<<>>} \cup {<<CopyField("Claim", "Front Panel", t)>> :
                                       t \in TokenTexts(MaxTokens)}
    /\ text_runs = <<>>
    /\ extraction_method \in {"LIVE_TEXT", "FAILED"}
    /\ pc = "start"
    /\ findings = <<>>
    /\ artwork_text_lookup = <<>>
    /\ field_index = 1
    /\ kwargs = <<>>
    /\ exc = NoException
    /\ results = <<>>
    /\ all_text_runs = <<>>

TriggerSpec == TriggerInit /\ [][Next]_vars

\* check_triggers was called for the field of the last MatchFinding(...) call.
Triggered == Attempted /\ kwargs.match_type # "REQUIRES_VERIFICATION"

\* The word w stands in t with no word character right before or after it.
IsWholeWordIn(w, t) ==
    \E p \in 1..(Len(t) - Len(w) + 1) :
        /\ SubSeq(t, p, p + Len(w) - 1) = w
        /\ p = 1 \/ ~IsWord(t[p - 1])
        /\ p + Len(w) - 1 = Len(t) \/ ~IsWord(t[p + Len(w)])

\* The configured negation words, by position, that are whole words of t
\* whatever their case.
WholeNegations(t) == {i \in 1..Len(NEGATION_WORDS) : IsWholeWordIn(NEGATION_WORDS[i], ToLower(t))}

NegationReasons == SelectSeq(kwargs.zoom_triggers[2].val, LAMBDA r : r.kind = "negation")

FirstOf(S) == CHOOSE i \in S : \A j \in S : i <= j

C14_RequiresVisualIffReasons ==
    Triggered =>
        /\ kwargs.zoom_triggers[1].val = (Len(kwargs.zoom_triggers[2].val) > 0)
        /\ bool(kwargs.zoom_triggers) = (Len(kwargs.zoom_triggers[2].val) > 0)

\* ------------------------------------------------------------------------
\* match_fields on one field and a few runs, each run in every style: the
\* same texts with different font sizes and confidences.
\* ------------------------------------------------------------------------
MaxStyledRuns == 2

\* <<font_size, confidence>>
Styles == {<<None, 100>>, <<Some(50), 100>>, <<Some(240), 80>>}

Restyle(runs, styles) ==
    [i \in 1..Len(runs) |->
        TextRun(runs[i].text, runs[i].page_number, styles[i][1], styles[i][2])]

StyledRuns ==
    UNION {{Restyle(base, styles) : styles \in [1..Len(base) -> Styles]} :
              base \in Slices(ArtworkA, MaxStyledRuns) \cup Slices(ArtworkB, MaxStyledRuns)}

ZoomInit ==
    /\ config \in {Config, ConfigOverride}
    /\ copy_fields \in Slices(CopyDocument, 1)
    /\ \/ extraction_method = "LIVE_TEXT" /\ text_runs \in StyledRuns
       \/ extraction_method = "FAILED" /\ text_runs = <<>>
    /\ pc = "start"
    /\ findings = <<>>
    /\ artwork_text_lookup = <<>>
    /\ field_index = 1
    /\ kwargs = <<>>
    /\ exc = NoException
    /\ results = <<>>
    /\ all_text_runs = <<>>

ZoomSpec == ZoomInit /\ [][Next]_vars

\* The runs with no font size and full confidence.
Plain(runs) == [i \in 1..Len(runs) |-> TextRun(runs[i].text, runs[i].page_number, None, 100)]

\* What check_triggers returns when no trigger fires.
NoTriggers == <<PyBool(FALSE), PyList(<<>>)>>

\* The keyword arguments for the same field and the same run texts when no
\* zoom trigger fires: plain runs, and no reason from the text.
PlainKwargs ==
    MatchZoomed(config, kwargs.copy_field, Plain(text_runs),
                _build_text_lookup(Plain(text_runs)), normalize(kwargs.copy_field.text),
                NoTriggers).kwargs

SameMatch(a, b) ==
    /\ a.match_type = b.match_type
    /\ a.fuzzy_score = b.fuzzy_score
    /\ a.artwork_value = b.artwork_value
    /\ a.matched_runs = b.matched_runs
    /\ a.status = b.status \/ (b.status = "OK" /\ a.status = "TBD")

\* C15: for the same field and the same run texts, the classification, the
\* score, the artwork value and the matched runs are those obtained when no
\* zoom trigger fires, whatever the font sizes, the confidences and the zoom
\* reasons; the status is the same or TBD in place of OK.
C15_ZoomLeavesMatchUnchanged == Triggered => SameMatch(kwargs, PlainKwargs)

\* An exact match on a small-font or low-confidence run, with zoom reasons.
C15_Witness ==
    /\ Triggered
    /\ text_runs # Plain(text_runs)
    /\ kwargs.zoom_triggers[2].val # <<>>
    /\ kwargs.match_type = "EXACT_MATCH"
    /\ \E k \in 1..Len(kwargs.matched_runs) :
           text_runs[kwargs.matched_runs[k]] # Plain(text_runs)[kwargs.matched_runs[k]]

\* ------------------------------------------------------------------------
\* match_fields on one run whose text is any sequence of the characters
\* normalize rewrites and ordinary ones, with a field of the same text when
\* the text is a single character or empty.
\* ------------------------------------------------------------------------
MaxChars == 3

NormalizeAlphabet ==
    {" ", "TAB", "U00A0", "U202F", "U201C", "U2019", "U00AB", "U2013", "U2010", "U02BC",
     "UFB01", "UFB03", "a"}

RECURSIVE CharTexts(_)
CharTexts(n) ==
    IF n = 0 THEN {<<>>}
    ELSE CharTexts(n - 1) \cup {Append(t, c) : t \in CharTexts(n - 1), c \in NormalizeAlphabet}

NormalizeInit ==
    /\ config = Config
    /\ \E x \in CharTexts(MaxChars) :
           /\ text_runs = <<TextRun(x, 1, None, 100)>>
           /\ copy_fields \in (IF Len(x) <= 1
                               THEN {<<>>, <<CopyField("Claim", "Front Panel", x)>>}
                               ELSE {<<>>})
           /\ extraction_method \in (IF x = <<>> THEN {"LIVE_TEXT", "FAILED"} ELSE {"LIVE_TEXT"})
    /\ pc = "start"
    /\ findings = <<>>
    /\ artwork_text_lookup = <<>>
    /\ field_index = 1
    /\ kwargs = <<>>
    /\ exc = NoException
    /\ results = <<>>
    /\ all_text_runs = <<>>

NormalizeSpec == NormalizeInit /\ [][Next]_vars

\* _build_text_lookup has normalized the runs.
LookupBuilt == pc \in {"match", "returned", "raised"} /\ extraction_method # "FAILED"

\* No leading space, no trailing space, no two spaces in a row.
IsTrimmed(t) ==
    /\ t # <<>> => t[1] # " " /\ t[Len(t)] # " "
    /\ \A i \in 1..(Len(t) - 1) : ~(t[i] = " " /\ t[i + 1] = " ")

\* C16: normalize(normalize(x)) = normalize(x) for every text x, and
\* normalize(x) has no leading space, no trailing space and no run of two
\* spaces; the keys of the exact-match index are such normalized texts.
C16_NormalizeIdempotent ==
    LookupBuilt =>
        /\ \A r \in 1..Len(text_runs) :
               /\ normalize(normalize(text_runs[r].text)) = normalize(text_runs[r].text)
               /\ IsTrimmed(normalize(text_runs[r].text))
               /\ normalize(text_runs[r].text) # <<>> =>
                      normalize(text_runs[r].text) \in DOMAIN artwork_text_lookup
        /\ \A key \in DOMAIN artwork_text_lookup : normalize(key) = key /\ IsTrimmed(key)

\* A text that normalize rewrites: a no-break space next to a space, and a
\* ligature.
C16_Witness ==
    /\ LookupBuilt
    /\ text_runs[1].text = <<"U00A0", " ", "UFB01">>
    /\ DOMAIN artwork_text_lookup = {<<"f", "i">>}

\* ------------------------------------------------------------------------
\* ConversionCheck (dataclass)
\* ------------------------------------------------------------------------
ConversionCheckRequired ==
    {"source_field", "declared_ml", "declared_floz", "calculated_floz", "within_tolerance",
     "status_code"}

ConversionCheckDefaults == [notes |-> <<>>]

ConversionCheckFields == ConversionCheckRequired \cup DOMAIN ConversionCheckDefaults

ConversionCheck(kw) ==
    IF \/ ~(DOMAIN kw \subseteq ConversionCheckFields)
       \/ ~(ConversionCheckRequired \subseteq DOMAIN kw)
    THEN Raise("TypeError")
    ELSE Value([f \in ConversionCheckFields |->
                   IF f \in DOMAIN kw THEN kw[f] ELSE ConversionCheckDefaults[f]])

\* ------------------------------------------------------------------------
\* ConversionChecker
\* A number is num / 10^decimals, as its decimal text reads.
\* ------------------------------------------------------------------------
\* 0.033814 fl oz per mL, in millionths
ML_TO_FL_OZ == 33814

\* 0.10 fl oz, in millionths
TOLERANCE == 100000

Decimal(num, decimals) == [num |-> num, decimals |-> decimals]

RECURSIVE Pow10(_)
Pow10(n) == IF n = 0 THEN 1 ELSE 10 * Pow10(n - 1)

DigitValue(c) == CHOOSE d \in 0..9 : <<"0", "1", "2", "3", "4", "5", "6", "7", "8", "9">>[d + 1] = c

RECURSIVE DigitsValue(_)
DigitsValue(digits) ==
    IF digits = <<>> THEN 0
    ELSE 10 * DigitsValue(SubSeq(digits, 1, Len(digits) - 1)) + DigitValue(digits[Len(digits)])

\* float(s) for s = digits, or digits '.' digits
float(s) ==
    LET digits == SelectSeq(s, IsDigit)
        dots == {i \in 1..Len(s) : s[i] = "."}
    IN  Decimal(DigitsValue(digits), IF dots = {} THEN 0 ELSE Len(s) - (CHOOSE i \in dots : TRUE))

\* (\d+(?:\.\d+)?)
AfterNumber(t, P) ==
    AfterDigits(t, P) \cup AfterDigits(t, AfterLit(t, AfterDigits(t, P), <<".">>, FALSE))

\* (?:US\s*)?
AfterOptUs(t, P) == P \cup AfterSpaces0(t, AfterLit(t, P, <<"U", "S">>, TRUE))

\* Where group 1 of ml_pattern may end when the match starts at p:
\* (\d+(?:\.\d+)?)\s*(?:ML|ml|mL|Ml)\b with re.IGNORECASE
MlGroupEnds(t, p) ==
    {e \in AfterNumber(t, {p}) :
        \E q \in AfterLit(t, AfterSpaces0(t, {e}), <<"m", "l">>, TRUE) : WordBoundary(t, q)}

\* Where group 1 of fl_oz_pattern may end when the match starts at p:
\* (\d+(?:\.\d+)?)\s*(?:US\s*)?(?:FL\.?\s*OZ\.?|...)\b with re.IGNORECASE
FlOzGroupEnds(t, p) ==
    {e \in AfterNumber(t, {p}) :
        \E q \in AfterOptDot(t, AfterFlOz(t, AfterOptUs(t, AfterSpaces0(t, {e})))) :
            WordBoundary(t, q)}

\* float(match.group(1)) of the leftmost match, the longest group first;
\* None when nothing matches.  ends[p] is where group 1 may end for start p.
FirstGroup(t, ends) ==
    LET starts == {p \in 1..Len(t) : ends[p] # {}}
    IN  IF starts = {} THEN None
        ELSE Some(float(SubSeq(t, FirstOf(starts),
                               (CHOOSE e \in ends[FirstOf(starts)] :
                                    \A f \in ends[FirstOf(starts)] : f <= e) - 1)))

\* Returns <<ml_value, fl_oz_value>>, each None or Some(number).
_extract_volumes(text) ==
    << FirstGroup(text, [p \in 1..Len(text) |-> MlGroupEnds(text, p)]),
       FirstGroup(text, [p \in 1..Len(text) |-> FlOzGroupEnds(text, p)]) >>

\* 'fill weight' in field.field_name.lower()
IsFillWeight(field) ==
    \E p \in 1..Len(field.field_name) :
        AfterLit(ToLower(field.field_name), {p},
                 <<"f", "i", "l", "l", " ", "w", "e", "i", "g", "h", "t">>, FALSE) # {}

\* Returns None or Some(the first fill weight field).
_find_fill_weight(fields) ==
    IF \E i \in 1..Len(fields) : IsFillWeight(fields[i])
    THEN Some(fields[FirstOf({i \in 1..Len(fields) : IsFillWeight(fields[i])})])
    ELSE None

\* if ml_value and fl_oz_value: a value that is None or 0.0 is false.
HasBothVolumes_MlOnly(volumes) == volumes[1] # None /\ volumes[1][1].num # 0

HasBothVolumes(volumes) ==
    /\ volumes[1] # None /\ volumes[1][1].num # 0
    /\ volumes[2] # None /\ volumes[2][1].num # 0

\* abs(fl_oz_value - ml_value * ML_TO_FL_OZ) and TOLERANCE, both in
\* millionths of 10^-d fl oz, d the decimals of ml_value.
Difference(ml, fl_oz) ==
    LET declared == fl_oz.num * Pow10(6 + ml.decimals - fl_oz.decimals)
        calculated == ml.num * ML_TO_FL_OZ
    IN  IF declared >= calculated THEN declared - calculated ELSE calculated - declared

ScaledTolerance(ml) == TOLERANCE * Pow10(ml.decimals)

\* passed = difference <= self.TOLERANCE, on floats: when the difference of
\* the decimal numbers is exactly the tolerance, the rounding of the product
\* and of the subtraction decides, either way.
Passed(ml, fl_oz) ==
    IF Difference(ml, fl_oz) < ScaledTolerance(ml) THEN {TRUE}
    ELSE IF Difference(ml, fl_oz) > ScaledTolerance(ml) THEN {FALSE}
    ELSE {TRUE, FALSE}

\* status=StatusCode.OK if passed else StatusCode.FAIL
ConversionStatus(passed) == IF passed THEN "OK" ELSE "FAIL"

\* result = ConversionCheck(field_name=..., ...); results.append(result)
Convert(ml, fl_oz, passed) ==
    LET kw == [field_name |-> "Fill Weight", ml_value |-> ml, fl_oz_value |-> fl_oz,
               calculated_fl_oz |-> Decimal(ml.num * ML_TO_FL_OZ, 6 + ml.decimals),
               difference |-> Decimal(Difference(ml, fl_oz), 6 + ml.decimals),
               tolerance |-> TOLERANCE, passed |-> passed,
               status |-> ConversionStatus(passed),
               notes |-> "Declared | Calculated | Diff"]
        made == ConversionCheck(kw)
    IN  [exc |-> made.exc, kwargs |-> kw,
         results |-> IF made.exc = NoException THEN <<made.val>> ELSE <<>>]

\* The branch on the extracted volumes; fl_oz_value - ... raises TypeError
\* on None.
CheckVolumes(volumes) ==
    IF HasBothVolumes(volumes)
    THEN IF volumes[2] = None
         THEN {[exc |-> "TypeError", kwargs |-> <<>>, results |-> <<>>]}
         ELSE {Convert(volumes[1][1], volumes[2][1], passed) :
                  passed \in Passed(volumes[1][1], volumes[2][1])}
    ELSE {[exc |-> NoException, kwargs |-> <<>>, results |-> <<>>]}

\* The outcomes of check_conversions(copy_fields, artwork_text_runs).
check_conversions(fields, artwork_text_runs) ==
    IF _find_fill_weight(fields) = None
    THEN {[exc |-> NoException, kwargs |-> <<>>, results |-> <<>>]}
    ELSE CheckVolumes(_extract_volumes(_find_fill_weight(fields)[1].text))

\* ------------------------------------------------------------------------
\* ConversionChecker.check_conversions as a state machine: one call, on a
\* copy document whose fill weight text is put together from a metric part
\* and an imperial part, in either order.
\* ------------------------------------------------------------------------
MaxLeadingFields == 1

\* The metric part: nothing, or a number and a unit.
MlParts ==
    {<<>>,
     <<"2", "5", "0", " ", "M", "L">>,
     <<"2", "5", "0", "m", "l">>,
     <<"1", "0", "0", "0", " ", "m", "L">>,
     <<"2", "0", "0", "0", " ", "m", "L">>,
     <<"1", "0", " ", "m", "L">>,
     <<"0", " ", "m", "L">>,
     <<"2", "5", "0", " ", "m", "L", "s">>,
     <<"1", "2", ".", "5", " ", "m", "l">>}

\* The imperial part: nothing, or a number and a unit.
FlOzParts ==
    {<<>>,
     <<"8", ".", "5", " ", "U", "S", " ", "F", "L", ".", " ", "O", "Z", ".">>,
     <<"9", ".", "5", " ", "F", "L", " ", "O", "Z">>,
     <<"3", "3", ".", "9", "1", "4", " ", "f", "l", " ", "o", "z">>,
     <<"6", "7", ".", "7", "2", "8", " ", "f", "l", ".", " ", "o", "z">>,
     <<"0", ".", "4", "3", "8", "1", "4", " ", "f", "l", " ", "o", "z">>,
     <<"0", ".", "4", "2", " ", "F", "l", ".", "O", "z">>,
     <<"8", ".", "5", " ", "o", "z">>,
     <<"0", " ", "f", "l", " ", "o", "z">>}

\* The names of the field that holds the volumes.
FieldNames ==
    {<<"F", "i", "l", "l", " ", "W", "e", "i", "g", "h", "t">>,
     <<"F", "I", "L", "L", " ", "W", "E", "I", "G", "H", "T", " ", "(", "E", "N", ")">>,
     <<"N", "e", "t", " ", "W", "e", "i", "g", "h", "t">>,
     <<"F", "i", "l", "l", " ", "W", "t">>}

FillWeightTexts ==
    {m \o <<" ", "/", " ">> \o f : m \in MlParts, f \in FlOzParts}
        \cup {f \o <<" ">> \o m : m \in MlParts, f \in FlOzParts}

\* The fields that stand before the field with the volumes.
LeadingField == CopyField(<<"C", "l", "a", "i", "m">>, "Front Panel", Text_NoParabens)

ConversionInit ==
    /\ config = Config
    /\ copy_fields \in
           {<<>>} \cup
           {[i \in 1..n |-> LeadingField] \o <<CopyField(name, "Back Panel", t)>> :
               n \in 0..MaxLeadingFields, name \in FieldNames, t \in FillWeightTexts}
    /\ text_runs = <<>>
    /\ extraction_method = "LIVE_TEXT"
    /\ pc = "start"
    /\ findings = <<>>
    /\ artwork_text_lookup = <<>>
    /\ field_index = 1
    /\ kwargs = <<>>
    /\ exc = NoException
    /\ results = <<>>
    /\ all_text_runs = <<>>

\* results = check_conversions(copy_fields, text_runs)
CheckConversions ==
    /\ pc = "start"
    /\ \E r \in check_conversions(copy_fields, text_runs) :
           /\ results' = r.results
           /\ kwargs' = r.kwargs
           /\ exc' = r.exc
           /\ pc' = IF r.exc = NoException THEN "returned" ELSE "raised"
    /\ UNCHANGED <<inputs, findings, artwork_text_lookup, field_index, all_text_runs>>

ConversionSpec == ConversionInit /\ [][CheckConversions]_vars

\* The fill weight field declares both volumes, neither of them zero.
DeclaresBoth ==
    /\ _find_fill_weight(copy_fields) # None
    /\ HasBothVolumes(_extract_volumes(_find_fill_weight(copy_fields)[1].text))

DeclaredMl == _extract_volumes(_find_fill_weight(copy_fields)[1].text)[1][1]

DeclaredFlOz == _extract_volumes(_find_fill_weight(copy_fields)[1].text)[2][1]

\* C17: when the fill weight field declares both volumes, check_conversions
\* returns one result, failing if and only if the declared fluid ounces
\* differ from declared_ml * 0.033814 by more than 0.10.
C17_ConversionReported ==
    (Finished /\ DeclaresBoth) =>
        /\ pc = "returned"
        /\ Len(results) = 1
        /\ (results[1].status_code = "FAIL") <=>
               (Difference(DeclaredMl, DeclaredFlOz) > ScaledTolerance(DeclaredMl))

\* C18: when no field is a fill weight field, or its text lacks the
\* millilitre value or the fluid-ounce value, check_conversions returns an
\* empty list: no ConversionCheck is built, none with a failing status is
\* returned, and nothing is raised.
C18_UnparsedVolumeIsSkipped ==
    ( /\ Finished
      /\ \/ _find_fill_weight(copy_fields) = None
         \/ _extract_volumes(_find_fill_weight(copy_fields)[1].text)[1] = None
         \/ _extract_volumes(_find_fill_weight(copy_fields)[1].text)[2] = None ) =>
        pc = "returned" /\ results = <<>> /\ ~Attempted /\ exc = NoException

\* A fill weight field with a millilitre value and no fluid-ounce value.
C18_Witness ==
    /\ pc = "returned"
    /\ _find_fill_weight(copy_fields) # None
    /\ _extract_volumes(_find_fill_weight(copy_fields)[1].text)[1] # None
    /\ _extract_volumes(_find_fill_weight(copy_fields)[1].text)[2] = None
    /\ results = <<>>

\* C19: no exception leaves match_fields: a field whose processing fails
\* gets a REQUIRES_VERIFICATION finding and the call still returns one
\* finding for every field.
C19_NoExceptionPropagates ==
    /\ exc = NoException
    /\ pc # "raised"
    /\ pc = "returned" => Len(findings) = Len(copy_fields)

\* ------------------------------------------------------------------------
\* Config.EXCLUSION_*: the patterns of the exclusion filter.  A pattern is
\* the sequence of items that the re module parses it into.
\* ------------------------------------------------------------------------
Lit(c) == [op |-> "literal", c |-> c]

Category(name) == [op |-> "category", name |-> name]

Range(lo, hi) == [op |-> "range", lo |-> lo, hi |-> hi]

In(members) == [op |-> "in", members |-> members]

\* A repeat without an upper limit.
Unbounded == -1

MaxRepeat(lo, hi, of) == [op |-> "max_repeat", lo |-> lo, hi |-> hi, of |-> of]

AtBeginning == [op |-> "at_beginning"]

AtEnd == [op |-> "at_end"]

EXCLUSION_EXACT_MATCHES ==
    {<<"a", "p", "p", "r", "o", "v", "e", "d">>, <<"b", "a", "c", "k">>,
     <<"b", "l", "a", "c", "k">>, <<"b", "l", "e", "e", "d">>,
     <<"b", "o", "t", "t", "o", "m">>, <<"c">>, <<"c", "m", "y", "k">>,
     <<"c", "r", "o", "p", " ", "m", "a", "r", "k", "s">>, <<"c", "u", "t">>,
     <<"c", "u", "t", " ", "h", "e", "r", "e">>, <<"c", "y", "a", "n">>,
     <<"d", "i", "e", " ", "c", "u", "t">>, <<"d", "i", "e", " ", "l", "i", "n", "e">>,
     <<"d", "i", "e", "l", "i", "n", "e">>, <<"d", "r", "a", "f", "t">>,
     <<"f", "i", "n", "a", "l">>, <<"f", "l", "a", "p">>, <<"f", "o", "i", "l">>,
     <<"f", "o", "l", "d">>, <<"f", "o", "l", "d", " ", "h", "e", "r", "e">>,
     <<"f", "o", "r", " ", "p", "o", "s", "i", "t", "i", "o", "n", " ", "o", "n", "l", "y">>,
     <<"f", "p", "o">>, <<"f", "r", "o", "n", "t">>, <<"g", "l", "o", "s", "s">>,
     <<"g", "l", "u", "e">>, <<"g", "l", "u", "e", " ", "f", "l", "a", "p">>,
     <<"i", "n", "s", "i", "d", "e">>, <<"k">>, <<"m">>,
     <<"m", "a", "g", "e", "n", "t", "a">>, <<"m", "a", "t", "t", "e">>, <<"o", "l">>,
     <<"o", "u", "t", "l", "i", "n", "e", "d">>, <<"o", "u", "t", "s", "i", "d", "e">>,
     <<"p", "r", "i", "n", "t", " ", "s", "i", "d", "e">>, <<"p", "r", "o", "o", "f">>,
     <<"r", "g", "b">>, <<"s", "a", "f", "e", " ", "z", "o", "n", "e">>,
     <<"s", "c", "o", "r", "e">>, <<"s", "i", "d", "e">>,
     <<"s", "p", "o", "t", " ", "g", "l", "o", "s", "s">>, <<"t", "o", "p">>,
     <<"t", "r", "i", "m">>, <<"w", "h", "i", "t", "e">>, <<"y">>,
     <<"y", "e", "l", "l", "o", "w">>}

EXCLUSION_REGEX_PATTERNS ==
    <<
      \* ^\d+\+?\d*/\d+$
      <<AtBeginning, MaxRepeat(1, Unbounded, Category("digit")),
         MaxRepeat(0, 1, Lit("+")), MaxRepeat(0, Unbounded, Category("digit")),
         Lit("/"), MaxRepeat(1, Unbounded, Category("digit")), AtEnd>>,
      \* ^\d+\s+\d+/\d+$
      <<AtBeginning, MaxRepeat(1, Unbounded, Category("digit")),
         MaxRepeat(1, Unbounded, Category("space")),
         MaxRepeat(1, Unbounded, Category("digit")), Lit("/"),
         MaxRepeat(1, Unbounded, Category("digit")), AtEnd>>,
      \* ^\d+\.\d{2,}$
      <<AtBeginning, MaxRepeat(1, Unbounded, Category("digit")), Lit("."),
         MaxRepeat(2, Unbounded, Category("digit")), AtEnd>>,
      \* ^IP\d+[A-Z]?$
      <<AtBeginning, Lit("I"), Lit("P"), MaxRepeat(1, Unbounded, Category("digit")),
         MaxRepeat(0, 1, In(<<Range("A", "Z")>>)), AtEnd>>,
      \* ^VC[_-]?\d+$
      <<AtBeginning, Lit("V"), Lit("C"), MaxRepeat(0, 1, In(<<Lit("_"), Lit("-")>>)),
         MaxRepeat(1, Unbounded, Category("digit")), AtEnd>>,
      \* ^ref\s*#?\s*:
      <<AtBeginning, Lit("r"), Lit("e"), Lit("f"),
         MaxRepeat(0, Unbounded, Category("space")), MaxRepeat(0, 1, Lit("#")),
         MaxRepeat(0, Unbounded, Category("space")), Lit(":")>>,
      \* ^code\s*#?\s*:
      <<AtBeginning, Lit("c"), Lit("o"), Lit("d"), Lit("e"),
         MaxRepeat(0, Unbounded, Category("space")), MaxRepeat(0, 1, Lit("#")),
         MaxRepeat(0, Unbounded, Category("space")), Lit(":")>>,
      \* ^PMS\s*\d+
      <<AtBeginning, Lit("P"), Lit("M"), Lit("S"),
         MaxRepeat(0, Unbounded, Category("space")),
         MaxRepeat(1, Unbounded, Category("digit"))>>,
      \* ^Pantone\s*\d+
      <<AtBeginning, Lit("P"), Lit("a"), Lit("n"), Lit("t"), Lit("o"), Lit("n"),
         Lit("e"), MaxRepeat(0, Unbounded, Category("space")),
         MaxRepeat(1, Unbounded, Category("digit"))>>,
      \* ^PMS\s+\w+\.\s*\w+
      <<AtBeginning, Lit("P"), Lit("M"), Lit("S"),
         MaxRepeat(1, Unbounded, Category("space")),
         MaxRepeat(1, Unbounded, Category("word")), Lit("."),
         MaxRepeat(0, Unbounded, Category("space")),
         MaxRepeat(1, Unbounded, Category("word"))>>,
      \* ^SCALE\s*:
      <<AtBeginning, Lit("S"), Lit("C"), Lit("A"), Lit("L"), Lit("E"),
         MaxRepeat(0, Unbounded, Category("space")), Lit(":")>>,
      \* ^SIZE\s*:
      <<AtBeginning, Lit("S"), Lit("I"), Lit("Z"), Lit("E"),
         MaxRepeat(0, Unbounded, Category("space")), Lit(":")>>,
      \* ^DATE\s*:
      <<AtBeginning, Lit("D"), Lit("A"), Lit("T"), Lit("E"),
         MaxRepeat(0, Unbounded, Category("space")), Lit(":")>>,
      \* ^DRAWN\s*:
      <<AtBeginning, Lit("D"), Lit("R"), Lit("A"), Lit("W"), Lit("N"),
         MaxRepeat(0, Unbounded, Category("space")), Lit(":")>>,
      \* ^CHECKED\s*:
      <<AtBeginning, Lit("C"), Lit("H"), Lit("E"), Lit("C"), Lit("K"), Lit("E"),
         Lit("D"), MaxRepeat(0, Unbounded, Category("space")), Lit(":")>>,
      \* ^APPROVED\s*:
      <<AtBeginning, Lit("A"), Lit("P"), Lit("P"), Lit("R"), Lit("O"), Lit("V"),
         Lit("E"), Lit("D"), MaxRepeat(0, Unbounded, Category("space")), Lit(":")>>,
      \* ^MATERIAL\s*:
      <<AtBeginning, Lit("M"), Lit("A"), Lit("T"), Lit("E"), Lit("R"), Lit("I"),
         Lit("A"), Lit("L"), MaxRepeat(0, Unbounded, Category("space")), Lit(":")>>,
      \* ^WEIGHT\s*:
      <<AtBeginning, Lit("W"), Lit("E"), Lit("I"), Lit("G"), Lit("H"), Lit("T"),
         MaxRepeat(0, Unbounded, Category("space")), Lit(":")>>,
      \* ^DWG\s*NO
      <<AtBeginning, Lit("D"), Lit("W"), Lit("G"),
         MaxRepeat(0, Unbounded, Category("space")), Lit("N"), Lit("O")>>,
      \* ^OFC\s*:
      <<AtBeginning, Lit("O"), Lit("F"), Lit("C"),
         MaxRepeat(0, Unbounded, Category("space")), Lit(":")>>,
      \* ^[X\.]+\u00b1\d+
      <<AtBeginning, MaxRepeat(1, Unbounded, In(<<Lit("X"), Lit(".")>>)),
         Lit("U00B1"), MaxRepeat(1, Unbounded, Category("digit"))>>,
      \* ^\.\w+\u00b1\d+
      <<AtBeginning, Lit("."), MaxRepeat(1, Unbounded, Category("word")),
         Lit("U00B1"), MaxRepeat(1, Unbounded, Category("digit"))>>,
      \* ^X\u00b0\u00b1\d+
      <<AtBeginning, Lit("X"), Lit("U00B0"), Lit("U00B1"),
         MaxRepeat(1, Unbounded, Category("digit"))>>,
      \* GENERAL\s+TOLERANCES
      <<Lit("G"), Lit("E"), Lit("N"), Lit("E"), Lit("R"), Lit("A"), Lit("L"),
         MaxRepeat(1, Unbounded, Category("space")), Lit("T"), Lit("O"), Lit("L"),
         Lit("E"), Lit("R"), Lit("A"), Lit("N"), Lit("C"), Lit("E"), Lit("S")>>,
      \* MILLIMETRES
      <<Lit("M"), Lit("I"), Lit("L"), Lit("L"), Lit("I"), Lit("M"), Lit("E"),
         Lit("T"), Lit("R"), Lit("E"), Lit("S")>>,
      \* INCHES
      <<Lit("I"), Lit("N"), Lit("C"), Lit("H"), Lit("E"), Lit("S")>>,
      \* INTEGRATED\s+PACKAGING
      <<Lit("I"), Lit("N"), Lit("T"), Lit("E"), Lit("G"), Lit("R"), Lit("A"),
         Lit("T"), Lit("E"), Lit("D"), MaxRepeat(1, Unbounded, Category("space")),
         Lit("P"), Lit("A"), Lit("C"), Lit("K"), Lit("A"), Lit("G"), Lit("I"),
         Lit("N"), Lit("G")>>,
      \* Kroger\s+Packaging
      <<Lit("K"), Lit("r"), Lit("o"), Lit("g"), Lit("e"), Lit("r"),
         MaxRepeat(1, Unbounded, Category("space")), Lit("P"), Lit("a"), Lit("c"),
         Lit("k"), Lit("a"), Lit("g"), Lit("i"), Lit("n"), Lit("g")>>,
      \* PROPRIETARY
      <<Lit("P"), Lit("R"), Lit("O"), Lit("P"), Lit("R"), Lit("I"), Lit("E"),
         Lit("T"), Lit("A"), Lit("R"), Lit("Y")>>,
      \* CONFIDENTIAL
      <<Lit("C"), Lit("O"), Lit("N"), Lit("F"), Lit("I"), Lit("D"), Lit("E"),
         Lit("N"), Lit("T"), Lit("I"), Lit("A"), Lit("L")>>,
      \* COPYRIGHT
      <<Lit("C"), Lit("O"), Lit("P"), Lit("Y"), Lit("R"), Lit("I"), Lit("G"),
         Lit("H"), Lit("T")>>,
      \* This\s+design\s+concept\s+is\s+the\s+exclusive\s+property
      <<Lit("T"), Lit("h"), Lit("i"), Lit("s"),
         MaxRepeat(1, Unbounded, Category("space")), Lit("d"), Lit("e"), Lit("s"),
         Lit("i"), Lit("g"), Lit("n"), MaxRepeat(1, Unbounded, Category("space")),
         Lit("c"), Lit("o"), Lit("n"), Lit("c"), Lit("e"), Lit("p"), Lit("t"),
         MaxRepeat(1, Unbounded, Category("space")), Lit("i"), Lit("s"),
         MaxRepeat(1, Unbounded, Category("space")), Lit("t"), Lit("h"), Lit("e"),
         MaxRepeat(1, Unbounded, Category("space")), Lit("e"), Lit("x"), Lit("c"),
         Lit("l"), Lit("u"), Lit("s"), Lit("i"), Lit("v"), Lit("e"),
         MaxRepeat(1, Unbounded, Category("space")), Lit("p"), Lit("r"), Lit("o"),
         Lit("p"), Lit("e"), Lit("r"), Lit("t"), Lit("y")>>,
      \* all\s+rights\s+are\s+reserved
      <<Lit("a"), Lit("l"), Lit("l"), MaxRepeat(1, Unbounded, Category("space")),
         Lit("r"), Lit("i"), Lit("g"), Lit("h"), Lit("t"), Lit("s"),
         MaxRepeat(1, Unbounded, Category("space")), Lit("a"), Lit("r"), Lit("e"),
         MaxRepeat(1, Unbounded, Category("space")), Lit("r"), Lit("e"), Lit("s"),
         Lit("e"), Lit("r"), Lit("v"), Lit("e"), Lit("d")>>,
      \* end\s+user\s*:
      <<Lit("e"), Lit("n"), Lit("d"), MaxRepeat(1, Unbounded, Category("space")),
         Lit("u"), Lit("s"), Lit("e"), Lit("r"),
         MaxRepeat(0, Unbounded, Category("space")), Lit(":")>>,
      \* item\s*:
      <<Lit("i"), Lit("t"), Lit("e"), Lit("m"),
         MaxRepeat(0, Unbounded, Category("space")), Lit(":")>>,
      \* 3RD\s+ANGLE\s+PROJECTION
      <<Lit("3"), Lit("R"), Lit("D"), MaxRepeat(1, Unbounded, Category("space")),
         Lit("A"), Lit("N"), Lit("G"), Lit("L"), Lit("E"),
         MaxRepeat(1, Unbounded, Category("space")), Lit("P"), Lit("R"), Lit("O"),
         Lit("J"), Lit("E"), Lit("C"), Lit("T"), Lit("I"), Lit("O"), Lit("N")>>,
      \* ^Label\s+Dieline
      <<AtBeginning, Lit("L"), Lit("a"), Lit("b"), Lit("e"), Lit("l"),
         MaxRepeat(1, Unbounded, Category("space")), Lit("D"), Lit("i"), Lit("e"),
         Lit("l"), Lit("i"), Lit("n"), Lit("e")>>,
      \* ^Customer\s*:
      <<AtBeginning, Lit("C"), Lit("u"), Lit("s"), Lit("t"), Lit("o"), Lit("m"),
         Lit("e"), Lit("r"), MaxRepeat(0, Unbounded, Category("space")), Lit(":")>>,
      \* ^Diameter
      <<AtBeginning, Lit("D"), Lit("i"), Lit("a"), Lit("m"), Lit("e"), Lit("t"),
         Lit("e"), Lit("r")>>,
      \* ^CLEARANCE\s+AREA
      <<AtBeginning, Lit("C"), Lit("L"), Lit("E"), Lit("A"), Lit("R"), Lit("A"),
         Lit("N"), Lit("C"), Lit("E"), MaxRepeat(1, Unbounded, Category("space")),
         Lit("A"), Lit("R"), Lit("E"), Lit("A")>>,
      \* ^Deco\s+Area
      <<AtBeginning, Lit("D"), Lit("e"), Lit("c"), Lit("o"),
         MaxRepeat(1, Unbounded, Category("space")), Lit("A"), Lit("r"), Lit("e"),
         Lit("a")>>,
      \* ^\d{1,2}/\d{1,2}/\d{2,4}$
      <<AtBeginning, MaxRepeat(1, 2, Category("digit")), Lit("/"),
         MaxRepeat(1, 2, Category("digit")), Lit("/"),
         MaxRepeat(2, 4, Category("digit")), AtEnd>>,
      \* ^\d{4}\.\d{2}\.\d{2}$
      <<AtBeginning, MaxRepeat(4, 4, Category("digit")), Lit("."),
         MaxRepeat(2, 2, Category("digit")), Lit("."),
         MaxRepeat(2, 2, Category("digit")), AtEnd>>
    >>

EXCLUSION_COMPANY_NAMES ==
    <<<<"I", "N", "T", "E", "G", "R", "A", "T", "E", "D", " ", "P", "A", "C", "K", "A", "G", "I", "N", "G", " ", "I", "N", "D", "U", "S", "T", "R", "I", "E", "S">>,
      <<"K", "r", "o", "g", "e", "r", " ", "P", "a", "c", "k", "a", "g", "i", "n", "g", " ", "I", "n", "c">>,
      <<"H", "e", "a", "t", " ", "M", "a", "k", "e", "s", " ", "S", "e", "n", "s", "e">>,
      <<"N", "V", "I">>>>

\* ------------------------------------------------------------------------
\* re.search(pattern, text, re.IGNORECASE)
\* ------------------------------------------------------------------------
LetterIndex(c) == CHOOSE i \in 1..26 : LowerLetters[i] = LowerChar(c)

IsLetter(c) == IsUpper(c) \/ IsLower(c)

\* One character against an item that consumes one character.
RECURSIVE CharMatches(_, _)
CharMatches(item, c) ==
    CASE item.op = "literal" -> LowerChar(c) = LowerChar(item.c)
      [] item.op = "category" ->
            (CASE item.name = "digit" -> IsDigit(c)
               [] item.name = "space" -> IsSpace(c)
               [] item.name = "word" -> IsWord(c))
      [] item.op = "range" ->
            /\ IsLetter(c)
            /\ LetterIndex(c) \in LetterIndex(item.lo)..LetterIndex(item.hi)
      [] item.op = "in" ->
            \E k \in 1..Len(item.members) : CharMatches(item.members[k], c)

\* The positions where the item may end when it starts at a position of P.
AfterItem(item, t, P) ==
    CASE item.op = "at_beginning" -> P \cap {1}
      [] item.op = "at_end" ->
            {p \in P : p = Len(t) + 1 \/ (p = Len(t) /\ t[p] = "LF")}
      [] item.op = "max_repeat" ->
            {q \in 1..(Len(t) + 1) :
                \E p \in P : /\ q - p >= item.lo
                             /\ item.hi = Unbounded \/ q - p <= item.hi
                             /\ \A k \in p..(q - 1) : CharMatches(item.of, t[k])}
      [] OTHER -> {p + 1 : p \in {x \in P : x <= Len(t) /\ CharMatches(item, t[x])}}

RECURSIVE AfterItems(_, _, _, _)
AfterItems(pattern, k, t, P) ==
    IF k > Len(pattern) \/ P = {} THEN P
    ELSE AfterItems(pattern, k + 1, t, AfterItem(pattern[k], t, P))

search(pattern, t) == AfterItems(pattern, 1, t, 1..(Len(t) + 1)) # {}

\* company.lower() in text_lower
Contains(t, w) == \E p \in 1..(Len(t) + 1) : AfterLit(t, {p}, w, FALSE) # {}

\* ------------------------------------------------------------------------
\* ExclusionChecker
\* ------------------------------------------------------------------------
IsTooShort(text) == text = <<>> \/ Len(Strip(text)) < 2

IsExactExclusion(text_lower) == text_lower \in EXCLUSION_EXACT_MATCHES

IsCompanyName(text_lower) ==
    \E k \in 1..Len(EXCLUSION_COMPANY_NAMES) :
        Contains(text_lower, ToLower(EXCLUSION_COMPANY_NAMES[k]))

IsExcludedPattern(text_clean) ==
    \E k \in 1..Len(EXCLUSION_REGEX_PATTERNS) :
        search(EXCLUSION_REGEX_PATTERNS[k], text_clean)

\* The first component of the pair that should_exclude returns.
should_exclude(text) ==
    \/ IsTooShort(text)
    \/ IsExactExclusion(ToLower(Strip(text)))
    \/ IsCompanyName(ToLower(Strip(text)))
    \/ IsExcludedPattern(Strip(text))

\* A filter that lets every run through.
filter_text_runs_KeepAll(runs) == runs

\* A filter that appends a lower-cased copy of each run it keeps.
RECURSIVE filter_text_runs_LoweredCopies(_)
filter_text_runs_LoweredCopies(runs) ==
    IF runs = <<>> THEN <<>>
    ELSE IF should_exclude(Head(runs).text)
         THEN filter_text_runs_LoweredCopies(Tail(runs))
         ELSE <<[Head(runs) EXCEPT !.text = ToLower(@)]>>
                  \o filter_text_runs_LoweredCopies(Tail(runs))

RECURSIVE filter_text_runs(_)
filter_text_runs(runs) ==
    IF runs = <<>> THEN <<>>
    ELSE IF should_exclude(Head(runs).text)
         THEN filter_text_runs(Tail(runs))
         ELSE <<Head(runs)>> \o filter_text_runs(Tail(runs))

\* ------------------------------------------------------------------------
\* PDFExtractor.extract and AIExtractor.extract, from the runs of the pages
\* on, followed by match_fields on the extraction's runs and method
\* ------------------------------------------------------------------------
\* pages_with_text is positive exactly when some page gave a run.
PDFExtractor_extract(runs) ==
    [extraction_method |-> IF runs = <<>> THEN "FAILED" ELSE "LIVE_TEXT",
     confidence_positive |-> runs # <<>>,
     text_runs |-> filter_text_runs(runs)]

AIExtractor_extract(runs) ==
    LET result == PDFExtractor_extract(runs)
    IN  IF result.confidence_positive
        THEN [result EXCEPT !.extraction_method = "AI_PDF_COMPATIBLE"]
        ELSE result

Text_Matte ==
    <<"M", "a", "t", "t", "e">>

Text_MatteFinish ==
    <<"M", "a", "t", "t", "e", " ", "F", "i", "n", "i", "s", "h">>

Text_Front ==
    <<"F", "R", "O", "N", "T">>

Text_Pms ==
    <<"P", "M", "S", " ", "2", "2", "5", "c">>

Text_K ==
    <<"K">>

Text_Kroger ==
    <<"K", "r", "o", "g", "e", "r", " ", "P", "a", "c", "k", "a", "g", "i", "n", "g", " ",
      "I", "n", "c", ".">>

Text_Dimension ==
    <<"3", "+", "7", "/", "8">>

\* The bound on the runs of the pages.
MaxRawRuns == 4

ExclusionCopy ==
    << CopyField("Net Weight", "Front Panel", Text_250mL),
       CopyField("Finish", "Front Panel", Text_Matte),
       CopyField("Product Name", "Front Panel", Text_BodyButter),
       CopyField("Shade", "Back Panel", Text_Pms) >>

ArtworkRaw ==
    << TextRun(Text_250, 1, Some(80), 100),
       TextRun(Text_Front, 1, Some(60), 100),
       TextRun(Text_mL, 1, Some(80), 100),
       TextRun(Text_Matte, 1, Some(120), 100),
       TextRun(Text_BodyButter, 1, Some(240), 100),
       TextRun(Text_Pms, 2, Some(60), 100),
       TextRun(Text_K, 2, Some(60), 100),
       TextRun(Text_MatteFinish, 2, Some(100), 100),
       TextRun(Text_Kroger, 2, Some(50), 100),
       TextRun(Text_Dimension, 2, Some(50), 100) >>

ExclusionInit ==
    /\ config \in {Config, ConfigOverride}
    /\ copy_fields \in Slices(ExclusionCopy, MaxFields)
    /\ all_text_runs \in Slices(ArtworkRaw, MaxRawRuns)
    /\ text_runs = <<>>
    /\ extraction_method = "FAILED"
    /\ pc = "extract"
    /\ findings = <<>>
    /\ artwork_text_lookup = <<>>
    /\ field_index = 1
    /\ kwargs = <<>>
    /\ exc = NoException
    /\ results = <<>>

\* artwork_extraction = self.pdf_extractor.extract(artwork_path), or
\* self.ai_extractor.extract(artwork_path)
Extract ==
    /\ pc = "extract"
    /\ \E artwork_ext \in {"pdf", "ai"} :
          LET artwork_extraction == IF artwork_ext = "pdf"
                                    THEN PDFExtractor_extract(all_text_runs)
                                    ELSE AIExtractor_extract(all_text_runs)
          IN  /\ text_runs' = artwork_extraction.text_runs
              /\ extraction_method' = artwork_extraction.extraction_method
    /\ pc' = "start"
    /\ UNCHANGED <<config, copy_fields, findings, artwork_text_lookup, field_index, kwargs,
                   exc, results, all_text_runs>>

ExclusionNext == Extract \/ Next

ExclusionSpec == ExclusionInit /\ [][ExclusionNext]_vars

\* The runs of the pages that should_exclude lets through.
Evidence == SelectSeq(all_text_runs, LAMBDA run : ~should_exclude(run.text))

\* The best similarity of the text over every run and window of Evidence.
EvidenceBest(text) ==
    ScanBest(normalize(text), Candidates(Evidence), 1, Score(0, 1), None).best_score

\* Some run of the pages is excluded.
SomeExcluded == \E i \in 1..Len(all_text_runs) : should_exclude(all_text_runs[i].text)

\* C20: a run of the pages for which should_exclude is true is never
\* evidence of a match: it is not among the runs handed to match_fields (so
\* it is in no window concatenation), not in the exact-match index, not
\* among the matched runs of a finding, and the score of a finding never
\* exceeds the best score over the runs that were let through.
C20_ExcludedNeverEvidence ==
    pc # "extract" =>
        /\ text_runs = Evidence
        /\ \A i \in 1..Len(text_runs) : ~should_exclude(text_runs[i].text)
        /\ \A key \in DOMAIN artwork_text_lookup :
               \A j \in 1..Len(artwork_text_lookup[key]) :
                   ~should_exclude(text_runs[artwork_text_lookup[key][j]].text)
        /\ Attempted =>
               /\ \A j \in 1..Len(kwargs.matched_runs) :
                      ~should_exclude(text_runs[kwargs.matched_runs[j]].text)
               /\ ~ScoreGreater(kwargs.fuzzy_score, EvidenceBest(kwargs.copy_field.text))

\* 'Matte' is a copy field and a run of the pages; the run is excluded, and
\* the field is reported missing.
C20_Witness ==
    /\ Attempted
    /\ SomeExcluded
    /\ kwargs.copy_field.text = Text_Matte
    /\ \E i \in 1..Len(all_text_runs) : all_text_runs[i].text = Text_Matte
    /\ kwargs.match_type = "MISSING_IN_ARTWORK"
    /\ kwargs.matched_runs = <<>>

\* ------------------------------------------------------------------------
\* match_fields on copy fields in every order
\* ------------------------------------------------------------------------
\* The lists of at most max distinct items of base, in every order.
RECURSIVE Arrangements(_, _)
Arrangements(base, max) ==
    IF max = 0 THEN {<<>>}
    ELSE LET shorter == Arrangements(base, max - 1)
         IN  shorter \cup
             {Append(s, base[i]) : s \in {x \in shorter : Len(x) = max - 1},
                                   i \in 1..Len(base)}

Distinct(s) == \A i, j \in 1..Len(s) : i # j => s[i] # s[j]

\* The bound on the runs of the artwork that the arranged fields meet.
MaxArrangedRuns == 3

IndependenceCopy ==
    << CopyField("Net Weight", "Front Panel", Text_250mL),
       CopyField("Product Name", "Front Panel", Text_BodyButter),
       CopyField("Directions", "Back Panel", Text_KeepOut),
       CopyField("Fill Weight", "Back Panel", Text_NetWt250mL) >>

IndependenceInit ==
    /\ config \in {Config, ConfigOverride}
    /\ copy_fields \in {s \in Arrangements(IndependenceCopy, MaxFields) : Distinct(s)}
    /\ text_runs \in Slices(ArtworkA, MaxArrangedRuns)
    /\ extraction_method \in ProducedMethods
    /\ pc = "start"
    /\ findings = <<>>
    /\ artwork_text_lookup = <<>>
    /\ field_index = 1
    /\ kwargs = <<>>
    /\ exc = NoException
    /\ results = <<>>
    /\ all_text_runs = <<>>

IndependenceSpec == IndependenceInit /\ [][Next]_vars

\* The field that the last MatchFinding(...) call was for: the loop stays
\* on the field whose finding could not be built.
CurrentField ==
    IF pc = "raised" THEN copy_fields[field_index] ELSE copy_fields[field_index - 1]

\* The keyword arguments that match_fields evaluates when the field is the
\* only copy field, with the same runs, method and configuration.
AloneKwargs(field) ==
    IF extraction_method = "FAILED"
    THEN Construct(Kwargs(field, "REQUIRES_VERIFICATION", "TBD", None, <<>>, Score(0, 1),
                          <<>>),
                   Value(Notes("Extraction failed - manual verification required",
                               <<>>))).kwargs
    ELSE _match_single_field(config, field, text_runs, _build_text_lookup(text_runs)).kwargs

MaxThresholdRuns == 2

\* The configurations with exact >= near >= mismatch, each threshold one of
\* a few percentages.
ThresholdConfigs ==
    {[EXACT_MATCH_THRESHOLD |-> e, NEAR_MATCH_THRESHOLD |-> n, MISMATCH_THRESHOLD |-> m] :
        e \in {95, 100}, n \in {90, 95}, m \in {60, 90, 95}}

\* Fields and runs whose best scores are 9/11, 19/20, 22/23 and 1.
ThresholdCopy ==
    << CopyField("Claim", "Front Panel", Text_NoParabens),
       CopyField("Directions", "Back Panel", Text_KeepOut),
       CopyField("Origin", "Side Panel", Text_MadeInUsa),
       CopyField("Product Name", "Front Panel", Text_BodyButter),
       CopyField("Net Weight", "Front Panel", Text_250mL) >>

ThresholdArtwork ==
    << TextRun(Text_NoParabensCaps, 1, Some(100), 100),
       TextRun(Text_KeepOutTypo, 1, Some(80), 90),
       TextRun(Text_MadeInUsaDot, 2, None, 80),
       TextRun(Text_BodyButter, 1, Some(240), 100),
       TextRun(Text_250, 2, Some(50), 100),
       TextRun(Text_mL, 2, Some(50), 100) >>

ThresholdInit ==
    /\ config \in {c \in ThresholdConfigs :
                      /\ c.EXACT_MATCH_THRESHOLD >= c.NEAR_MATCH_THRESHOLD
                      /\ c.NEAR_MATCH_THRESHOLD >= c.MISMATCH_THRESHOLD}
    /\ copy_fields \in Slices(ThresholdCopy, 1)
    /\ text_runs \in Slices(ThresholdArtwork, MaxThresholdRuns)
    /\ extraction_method \in {"LIVE_TEXT", "FAILED"}
    /\ pc = "start"
    /\ findings = <<>>
    /\ artwork_text_lookup = <<>>
    /\ field_index = 1
    /\ kwargs = <<>>
    /\ exc = NoException
    /\ results = <<>>
    /\ all_text_runs = <<>>

ThresholdSpec == ThresholdInit /\ [][Next]_vars

\* The non-empty texts that a field is compared with: the normalized text
\* of every run and the concatenation of every window of 2 to 5 runs.
ComparedTexts ==
    ( {normalize(text_runs[r].text) : r \in 1..Len(text_runs)}
      \cup {Concatenated(text_runs, w[1], w[2]) :
               w \in {v \in (1..Len(text_runs)) \X (2..5) :
                         v[1] + v[2] - 1 <= Len(text_runs)}} ) \ {<<>>}

\* The greatest similarity of the text to a compared text, 0 when there is
\* none.
TopScore(text) ==
    IF ComparedTexts = {} THEN Score(0, 1)
    ELSE ratio(text, CHOOSE c \in ComparedTexts :
                        \A d \in ComparedTexts : ~ScoreGreater(ratio(text, d), ratio(text, c)))

\* The classification of a best score under the configured thresholds.
Classified(score) ==
    IF ~ScoreAtLeast(score, config.MISMATCH_THRESHOLD) THEN "MISSING_IN_ARTWORK"
    ELSE IF ~ScoreAtLeast(score, config.NEAR_MATCH_THRESHOLD) THEN "MISMATCH"
    ELSE IF ~ScoreAtLeast(score, config.EXACT_MATCH_THRESHOLD) THEN "NEAR_MATCH"
    ELSE "EXACT_MATCH"

\* What _fuzzy_match_with_sliding_window returns for the field of the last
\* MatchFinding(...) call.
FuzzyOutcome ==
    _fuzzy_match_with_sliding_window(config, normalize(kwargs.copy_field.text), text_runs)

Text_250mLDot ==
    <<"2", "5", "0", " ", "m", "L", ".">>

Text_250mLComma ==
    <<"2", "5", "0", " ", "m", "L", ",">>

Text_mLDot ==
    <<"m", "L", ".">>

Text_mLComma ==
    <<"m", "L", ",">>

\* The bound on the runs of the artwork.
MaxTieRuns == 4

TieCopy ==
    << CopyField("Net Weight", "Front Panel", Text_250mL),
       CopyField("Unit", "Front Panel", Text_mL) >>

TieArtwork ==
    << TextRun(Text_250, 1, Some(80), 100),
       TextRun(Text_mLDot, 1, Some(80), 100),
       TextRun(Text_250, 2, Some(80), 100),
       TextRun(Text_mLComma, 2, Some(80), 100),
       TextRun(Text_Blank, 2, None, 100),
       TextRun(Text_250mLDot, 3, Some(80), 100),
       TextRun(Text_250mLComma, 3, Some(80), 100) >>

TieInit ==
    /\ config \in {Config, ConfigOverride}
    /\ copy_fields \in Slices(TieCopy, 1)
    /\ text_runs \in Slices(TieArtwork, MaxTieRuns)
    /\ extraction_method \in {"LIVE_TEXT", "FAILED"}
    /\ pc = "start"
    /\ findings = <<>>
    /\ artwork_text_lookup = <<>>
    /\ field_index = 1
    /\ kwargs = <<>>
    /\ exc = NoException
    /\ results = <<>>
    /\ all_text_runs = <<>>

TieSpec == TieInit /\ [][Next]_vars

\* A stretch <<k, i>> is the k consecutive runs that start at run i: a
\* single run for k = 1, a window for k in 2..5.
Stretches ==
    {d \in (1..5) \X (1..Len(text_runs)) : d[2] + d[1] - 1 <= Len(text_runs)}

StretchText(d) ==
    IF d[1] = 1 THEN normalize(text_runs[d[2]].text) ELSE Concatenated(text_runs, d[2], d[1])

StretchRuns(d) == [j \in 1..d[1] |-> d[2] + j - 1]

\* Single runs before windows, smaller windows before larger, and in one
\* size the earlier start first.
ScannedBefore(d, e) == d[1] < e[1] \/ (d[1] = e[1] /\ d[2] < e[2])

\* The stretches with a text, whose score against the text is positive and
\* below no other's, and strictly above that of every stretch scanned
\* before.
FirstMaximal(text) ==
    {d \in Stretches :
        /\ StretchText(d) # <<>>
        /\ ScoreGreater(ratio(text, StretchText(d)), Score(0, 1))
        /\ \A e \in Stretches :
              StretchText(e) # <<>> =>
                  /\ ~ScoreGreater(ratio(text, StretchText(e)), ratio(text, StretchText(d)))
                  /\ ScannedBefore(e, d) =>
                         ScoreGreater(ratio(text, StretchText(d)), ratio(text, StretchText(e)))}

\* The best candidate of the scan for the field of the last
\* MatchFinding(...) call.
Scanned ==
    ScanBest(normalize(kwargs.copy_field.text), Candidates(text_runs), 1, Score(0, 1), None)

\* Another stretch scores as much as the first maximal one.
Tied(text) ==
    \E d \in FirstMaximal(text) :
        \E e \in Stretches \ {d} :
            /\ StretchText(e) # <<>>
            /\ ~ScoreGreater(ratio(text, StretchText(d)), ratio(text, StretchText(e)))

\* C23: the best candidate of the scan is the first stretch, in scan order,
\* among those with the greatest score; its runs are the matched runs and
\* its text the artwork value of every finding decided on the fuzzy path.
C23_FirstMaximalCandidateWins ==
    (Attempted /\ extraction_method # "FAILED") =>
        /\ IF Scanned.best_match = None
           THEN FirstMaximal(normalize(kwargs.copy_field.text)) = {}
           ELSE \E d \in FirstMaximal(normalize(kwargs.copy_field.text)) :
                   /\ Scanned.best_match[1].runs = StretchRuns(d)
                   /\ Scanned.best_match[1].text = StretchText(d)
        /\ ( /\ normalize(kwargs.copy_field.text) \notin DOMAIN artwork_text_lookup
             /\ kwargs.match_type # "MISSING_IN_ARTWORK" ) =>
               \E d \in FirstMaximal(normalize(kwargs.copy_field.text)) :
                   /\ kwargs.matched_runs = StretchRuns(d)
                   /\ kwargs.artwork_value = Some(StretchText(d))

\* '250 mL' against the runs 250, mL., 250, mL,: the windows 250 mL. and
\* 250 mL, tie at 12/13 and the one that starts first is the evidence.
C23_Witness ==
    /\ Attempted
    /\ kwargs.copy_field.text = Text_250mL
    /\ Len(text_runs) = 4
    /\ text_runs[2].text = Text_mLDot
    /\ text_runs[4].text = Text_mLComma
    /\ Tied(Text_250mL)
    /\ kwargs.match_type = "NEAR_MATCH"
    /\ kwargs.matched_runs = <<1, 2>>

\* Two scores are the same fraction.
ScoreEqual(s, t) == s.num * t.den = t.num * s.den

\* The field of the last MatchFinding(...) call was not found in the exact
\* index and went through the comparison with every run and window.
FuzzyPath ==
    /\ Attempted
    /\ extraction_method # "FAILED"
    /\ normalize(kwargs.copy_field.text) \notin DOMAIN artwork_text_lookup

IsPunctuation(c) == c \in {".", ",", ";", ":", "!", "?", "-", "'"}

DropPunctuation(t) == SelectSeq(t, LAMBDA c : ~IsPunctuation(c))

DiffersInCaseOrPunctuation(a, b) ==
    a # b /\ (ToLower(a) = ToLower(b) \/ DropPunctuation(a) = DropPunctuation(b))

\* C25: with the exact threshold at its default of 100, a field is
\* classified EXACT_MATCH only if its normalized text is, character for
\* character, the normalized text of a run or the single-space
\* concatenation of the normalized texts of a window of 2 to 5 consecutive
\* runs; a field that differs from all of them in letter case or
\* punctuation is not EXACT_MATCH.
C25_ExactOnlyIfIdentical ==
    ( /\ Attempted
      /\ extraction_method # "FAILED"
      /\ config.EXACT_MATCH_THRESHOLD = 100
      /\ kwargs.match_type = "EXACT_MATCH" ) =>
        normalize(kwargs.copy_field.text) \in ComparedTexts

\* 'no parabens' against 'No Parabens', or 'Made in USA' against
\* 'Made in USA.': not an exact match under the default thresholds.
C25_Witness ==
    /\ Attempted
    /\ DefaultThresholds
    /\ extraction_method # "FAILED"
    /\ \E c \in ComparedTexts :
           DiffersInCaseOrPunctuation(normalize(kwargs.copy_field.text), c)
    /\ normalize(kwargs.copy_field.text) \notin ComparedTexts
    /\ kwargs.match_type \in {"NEAR_MATCH", "MISSING_IN_ARTWORK"}

\* C26: a copy field whose text is empty or only whitespace normalizes to
\* the empty text and match_fields returns a finding for it that is neither
\* EXACT_MATCH nor NEAR_MATCH; the exact index has no empty key.
C26_BlankFieldIsUnmatched ==
    Finished =>
        /\ <<>> \notin DOMAIN artwork_text_lookup
        /\ \A i \in 1..Len(copy_fields) :
               Strip(copy_fields[i].text) = <<>> =>
                   /\ normalize(copy_fields[i].text) = <<>>
                   /\ HasFinding(i)
                   /\ findings[i].match_type \notin {"EXACT_MATCH", "NEAR_MATCH"}

\* ------------------------------------------------------------------------
\* ZoomTriggerDetector.check_triggers called on its own, with a font size, a
\* confidence and a score: kwargs holds the arguments of the call, results
\* the tuple it returns.
\* ------------------------------------------------------------------------
MaxDetectorTokens == 3

DetectorTokens ==
    {<<"5", ".", "5", "%">>, <<" ", "5", "g">>,
     <<" ", "5", "g", " ", "5", "m">>, <<" ", "n", "o">>,
     <<" ", "n", "o", "t", " ", "n", "o">>}

RECURSIVE DetectorTexts(_)
DetectorTexts(n) ==
    IF n = 0 THEN {<<>>}
    ELSE DetectorTexts(n - 1) \cup {t \o k : t \in DetectorTexts(n - 1), k \in DetectorTokens}

\* Font sizes in tenths of a point: none, 6.5pt, 24.0pt.
DetectorFontSizes == {None, Some(65), Some(240)}

DetectorPercentages == {80, 100}

DetectorInit ==
    /\ config = Config
    /\ copy_fields = <<>>
    /\ text_runs = <<>>
    /\ extraction_method = "LIVE_TEXT"
    /\ pc = "start"
    /\ findings = <<>>
    /\ artwork_text_lookup = <<>>
    /\ field_index = 1
    /\ kwargs \in [text : DetectorTexts(MaxDetectorTokens), font_size : DetectorFontSizes,
                   confidence : DetectorPercentages, fuzzy_score : DetectorPercentages]
    /\ exc = NoException
    /\ results = <<>>
    /\ all_text_runs = <<>>

\* results = ZoomTriggerDetector.check_triggers(**kwargs)
CheckTriggers ==
    /\ pc = "start"
    /\ results' = check_triggers(kwargs.text, kwargs.font_size, kwargs.confidence,
                                 kwargs.fuzzy_score)
    /\ pc' = "returned"
    /\ UNCHANGED <<inputs, findings, artwork_text_lookup, field_index, kwargs, exc,
                   all_text_runs>>

DetectorSpec == DetectorInit /\ [][CheckTriggers]_vars

\* The categories of reasons, in the order the claim lists them.
ReasonOrder ==
    <<"font_size", "confidence", "fuzzy", "numbers", "percentage", "decimals", "units",
      "negation">>

Rank(kind) == CHOOSE k \in 1..Len(ReasonOrder) : ReasonOrder[k] = kind

\* The reasons returned by the call.
Returned == results[2].val

ReturnedOfKind(kind) == SelectSeq(Returned, LAMBDA r : r.kind = kind)

\* How many of the three unit patterns are found in t.
UnitPatternsFound(t) ==
    Cardinality({k \in 0..2 : \/ k = 0 /\ SearchUnit0(t)
                              \/ k = 1 /\ SearchUnit1(t)
                              \/ k = 2 /\ SearchUnit2(t)})

\* C27: the reasons check_triggers returns stand in the order font size,
\* confidence, fuzzy score, numbers, percentage, decimal numbers, units,
\* negation, with at most one reason of each category; a text in which a
\* unit pattern is found has exactly one units reason however many patterns
\* are found, and a text with negation words as whole words has exactly one
\* negation reason, naming the first such word of the configured list.
C27_ReasonsInFixedOrder ==
    pc = "returned" =>
        /\ \A i, j \in 1..Len(Returned) :
               i < j => Rank(Returned[i].kind) < Rank(Returned[j].kind)
        /\ UnitPatternsFound(kwargs.text) > 0 => Len(ReturnedOfKind("units")) = 1
        /\ WholeNegations(kwargs.text) # {} =>
               ReturnedOfKind("negation") =
                   <<Reason("negation", NEGATION_WORDS[FirstOf(WholeNegations(kwargs.text))])>>

\* '5.5% 5g 5m not no' at 6.5pt with confidence 80 and score 80: all eight
\* reasons, one units reason for two patterns found, one negation reason for
\* two negation words.
C27_Witness ==
    /\ pc = "returned"
    /\ kwargs.font_size = Some(65)
    /\ UnitPatternsFound(kwargs.text) = 2
    /\ Cardinality(WholeNegations(kwargs.text)) = 2
    /\ [k \in 1..Len(Returned) |-> Returned[k].kind] = ReasonOrder
    /\ Returned[8].word = <<"n", "o">>

\* ------------------------------------------------------------------------
\* The inputs of filter_text_runs and match_fields across the calls
\* ------------------------------------------------------------------------
\* s is t with some items left out, the others in the order of t.
RECURSIVE IsSubsequence(_, _)
IsSubsequence(s, t) ==
    IF s = <<>> THEN TRUE
    ELSE IF t = <<>> THEN FALSE
    ELSE IF Head(s) = Head(t) THEN IsSubsequence(Tail(s), Tail(t))
    ELSE IsSubsequence(s, Tail(t))

\* filter_text_runs has returned: text_runs is the list it built.
Filtered == pc # "extract"

\* The runs a MatchFinding(...) call refers to are runs of the list given to
\* match_fields.
MatchedAreInputRuns ==
    Attempted => \A j \in 1..Len(kwargs.matched_runs) : kwargs.matched_runs[j] \in DOMAIN text_runs

\* C28: no step of filter_text_runs or match_fields changes the copy fields
\* or the list of runs it was given (each run's text, page, font size and
\* confidence, and the order of the list); the list filter_text_runs returns
\* holds runs of its input in the input's order, and every matched run of a
\* finding is a run of the list given to match_fields.
C28_InputsUnchanged ==
    /\ [](Filtered => IsSubsequence(text_runs, all_text_runs))
    /\ []MatchedAreInputRuns
    /\ [][/\ copy_fields' = copy_fields
          /\ all_text_runs' = all_text_runs
          /\ Filtered => text_runs' = text_runs]_vars

\* After filter_text_runs dropped a run and match_fields matched a window of
\* two kept runs: the raw list and the filtered list are as they were.
C28_Witness ==
    /\ Attempted
    /\ Len(text_runs) < Len(all_text_runs)
    /\ Len(kwargs.matched_runs) = 2
    /\ \A j \in 1..2 : \E i \in 1..Len(all_text_runs) :
           all_text_runs[i] = text_runs[kwargs.matched_runs[j]]

\* ------------------------------------------------------------------------
\* match_fields on one field and an artwork of more than five runs, a blank
\* run among them: the windows the fuzzy comparison can return.
\* ------------------------------------------------------------------------
Text_12 ==
    <<"1", "2">>

Text_oz ==
    <<"o", "z">>

Text_NetWt250mL12oz ==
    <<"N", "e", "t", " ", "W", "t", " ", "2", "5", "0", " ", "m", "L", " ", "1", "2", " ",
      "o", "z">>

MaxWindowRuns == 6

WindowCopy ==
    << CopyField("Fill Weight", "Back Panel", Text_NetWt250mL12oz),
       CopyField("Net Weight", "Front Panel", Text_250mL),
       CopyField("Claim", "Front Panel", Text_NoParabens) >>

WindowArtwork ==
    << TextRun(Text_Net, 2, Some(50), 100),
       TextRun(Text_Wt, 2, Some(50), 100),
       TextRun(Text_250, 2, Some(50), 100),
       TextRun(Text_mL, 2, Some(50), 100),
       TextRun(Text_Blank, 2, None, 100),
       TextRun(Text_12, 2, Some(50), 100),
       TextRun(Text_oz, 2, Some(50), 100) >>

WindowInit ==
    /\ config \in {Config, ConfigOverride}
    /\ copy_fields \in Slices(WindowCopy, 1)
    /\ text_runs \in Slices(WindowArtwork, MaxWindowRuns)
    /\ extraction_method \in {"LIVE_TEXT", "FAILED"}
    /\ pc = "start"
    /\ findings = <<>>
    /\ artwork_text_lookup = <<>>
    /\ field_index = 1
    /\ kwargs = <<>>
    /\ exc = NoException
    /\ results = <<>>
    /\ all_text_runs = <<>>

WindowSpec == WindowInit /\ [][Next]_vars

\* The last MatchFinding(...) call is for a field classified by the fuzzy
\* comparison.
FuzzyFinding ==
    /\ FuzzyPath
    /\ kwargs.match_type \in {"EXACT_MATCH", "NEAR_MATCH", "MISMATCH"}

\* The positions in runs follow one another.
Contiguous(runs) == \A j \in 1..(Len(runs) - 1) : runs[j + 1] = runs[j] + 1

\* The single-space concatenation of the non-empty normalized texts of the
\* runs at the positions given.
JoinedNonEmpty(runs) ==
    JoinSpace(SelectSeq([j \in 1..Len(runs) |-> normalize(text_runs[runs[j]].text)],
                        LAMBDA t : t # <<>>))

\* C29: for every field classified by the fuzzy comparison the matched runs
\* are between 1 and 5 consecutive runs of the artwork, in extraction order
\* and no more than the artwork has, and artwork_value is the single-space
\* concatenation of their non-empty normalized texts.
C29_MatchedRunsAreOneWindow ==
    FuzzyFinding =>
        /\ Len(kwargs.matched_runs) \in 1..Min(5, Len(text_runs))
        /\ \A j \in 1..Len(kwargs.matched_runs) : kwargs.matched_runs[j] \in DOMAIN text_runs
        /\ Contiguous(kwargs.matched_runs)
        /\ kwargs.artwork_value = Some(JoinedNonEmpty(kwargs.matched_runs))

\* 'Net Wt 250 mL 12 oz' against Net, Wt, 250, mL, blank, 12: a larger
\* artwork than five runs, and the finding has a window of five, the blank
\* run in it or not.
C29_Witness ==
    /\ FuzzyFinding
    /\ Len(text_runs) = 6
    /\ Len(kwargs.matched_runs) = 5
    /\ kwargs.copy_field.text = Text_NetWt250mL12oz

\* ------------------------------------------------------------------------
\* match_fields on one field and an artwork in which several runs have the
\* same normalized text, apart from one another
\* ------------------------------------------------------------------------
Text_250mLWide ==
    <<"2", "5", "0", " ", " ", "m", "L">>

MaxIndexRuns == 4

IndexCopy ==
    << CopyField("Net Weight", "Front Panel", Text_250mLWide),
       CopyField("Product Name", "Front Panel", Text_BodyButter),
       CopyField("Legal", "Back Panel", Text_Blank),
       CopyField("Fill Weight", "Back Panel", Text_NetWt250mL) >>

IndexArtwork ==
    << TextRun(Text_250mL, 1, Some(80), 100),
       TextRun(Text_BodyButter, 1, Some(240), 100),
       TextRun(Text_250mLWide, 2, Some(60), 100),
       TextRun(Text_Blank, 2, None, 100),
       TextRun(Text_250, 2, Some(50), 100),
       TextRun(Text_mL, 2, Some(50), 100),
       TextRun(Text_250mL, 3, Some(80), 100) >>

IndexInit ==
    /\ config \in {Config, ConfigOverride}
    /\ copy_fields \in Slices(IndexCopy, 1)
    /\ text_runs \in Slices(IndexArtwork, MaxIndexRuns)
    /\ extraction_method \in {"LIVE_TEXT", "FAILED"}
    /\ pc = "start"
    /\ findings = <<>>
    /\ artwork_text_lookup = <<>>
    /\ field_index = 1
    /\ kwargs = <<>>
    /\ exc = NoException
    /\ results = <<>>
    /\ all_text_runs = <<>>

IndexSpec == IndexInit /\ [][Next]_vars

\* The positions of the runs whose normalized text is text, in extraction
\* order.
RunsWithText(text) ==
    SelectSeq([i \in 1..Len(text_runs) |-> i], LAMBDA i : normalize(text_runs[i].text) = text)

\* The last MatchFinding(...) call is for a field whose normalized text is
\* not empty and is the normalized text of some run.
IndexHit ==
    /\ Attempted
    /\ extraction_method # "FAILED"
    /\ normalize(kwargs.copy_field.text) # <<>>
    /\ RunsWithText(normalize(kwargs.copy_field.text)) # <<>>

\* The index has been built: its keys are the non-empty normalized texts of
\* the runs.
IndexBuilt ==
    (pc # "start" /\ extraction_method # "FAILED") =>
        /\ DOMAIN artwork_text_lookup =
               {normalize(text_runs[i].text) : i \in 1..Len(text_runs)} \ {<<>>}
        /\ \A k \in DOMAIN artwork_text_lookup : artwork_text_lookup[k] = RunsWithText(k)

\* The finding of an index hit is made of the field and the index alone.
HitFromIndexAlone ==
    IndexHit =>
        /\ kwargs.match_type = "EXACT_MATCH"
        /\ kwargs.matched_runs = RunsWithText(normalize(kwargs.copy_field.text))
        /\ IsFullScore(kwargs.fuzzy_score)
        /\ kwargs.artwork_value = Some(kwargs.copy_field.text)

\* C30: the index is built in one step at the start of match_fields and is
\* not changed afterwards; it has a key for every non-empty normalized run
\* text and none for the empty text; a field whose normalized text is a key
\* is EXACT_MATCH with score 100, and its matched runs are all the runs with
\* that normalized text, in extraction order, duplicates included, whatever
\* the single runs and windows around them.
C30_IndexTakesPriority ==
    /\ []IndexBuilt
    /\ []HitFromIndexAlone
    /\ [][pc # "start" => artwork_text_lookup' = artwork_text_lookup]_vars

\* '250  mL' against '250 mL', 'Body Butter', '250  mL': the first and the
\* third run are the matched runs, the run between them is not; or against
\* '  ', '250', 'mL', '250 mL': the fourth run alone, not the window.
C30_Witness ==
    /\ IndexHit
    /\ kwargs.copy_field.text = Text_250mLWide
    /\ \/ kwargs.matched_runs = <<1, 3>>
       \/ /\ kwargs.matched_runs = <<4>>
          /\ text_runs[2].text = Text_250 /\ text_runs[3].text = Text_mL

====
